---- MODULE Spec2Model ----
(***************************************************************************)
(* Model of the DVSA driving-test reschedule bot (main.py, util.py,        *)
(* clicker.py).  The browser, the web site and the SMS provider are the    *)
(* environment: every read of the page and every driver call that may      *)
(* fail is a nondeterministic choice.                                      *)
(***************************************************************************)
EXTENDS Integers, Sequences, FiniteSets, TLC

VARIABLES
    mode,                  \* which entry point this behaviour runs
    pc,                    \* position in the code
    page,                  \* what the browser currently shows (url + source)
    status,                \* last value returned by check_firewall_and_queue
    solved,                \* last value returned by solve_captcha
    loop_count,            \* handle_queue_and_firewall: loop_count
    obs,                   \* observation record (history of what was done)
    run,                   \* locals of run_reschedule_flow / run_initial_booking_flow
    bot,                   \* the DVSABot object of the current attempt
    preferences,           \* the preferences dict (config_data, shared by every bot)
    browsers,              \* the browser processes currently open
    bk,                    \* locals of book_test_flow
    scanIn,                \* arguments and calendar grid of scan_for_preferred_tests
    scanOut,               \* its result
    mouse                  \* the captcha handler on its own: arguments, clicks, result

vars == <<mode, pc, page, status, solved, loop_count, obs, run, bot, preferences,
          browsers, bk, scanIn, scanOut, mouse>>

\* groups used in UNCHANGED
queueVars == <<status, solved, loop_count>>
runVars == <<run, bot, preferences, browsers>>
bookVars == <<bk>>
scanVars == <<scanIn, scanOut, mouse>>

-----------------------------------------------------------------------------
(* Bounds of the model *)

\* firewall iterations of the queue loop explored in one call
MaxFirewall == 2

\* queue waits of one login after which the waiting room only keeps waiting
MaxQueueWaits == 2

-----------------------------------------------------------------------------
(* Program constants *)

max_queue_checks == 100
SOLVE_MANUALLY == FALSE

-----------------------------------------------------------------------------
(* Page text.  A marker text is absent from the page, present in lower     *)
(* case, or present in some other capitalisation; str.lower() maps the     *)
(* last onto the second, and `in` looks for the lower-case marker.         *)

Case3 == {"none", "lower", "mixed"}

Lower(c) == IF c = "mixed" THEN "lower" ELSE c

Has(c) == c = "lower"

AllPages ==
    [queue_url : Case3, req_unsuccessful : Case3, incident_id : Case3,
     login_banner : Case3, oops : Case3]

BlankPage ==
    [queue_url |-> "none", req_unsuccessful |-> "none", incident_id |-> "none",
     login_banner |-> "none", oops |-> "none"]

QueuePage == [BlankPage EXCEPT !.queue_url = "lower"]
FirewallPage == [BlankPage EXCEPT !.req_unsuccessful = "mixed", !.incident_id = "mixed"]
LoginPage == [BlankPage EXCEPT !.login_banner = "mixed"]
ErrorPage == [BlankPage EXCEPT !.oops = "mixed"]

\* the pages the site serves during a flow
FlowPages == {QueuePage, FirewallPage, LoginPage, ErrorPage, BlankPage}

States == {"queue", "firewall", "login_required", "error", "ok"}

\* the Imperva signature test shared by check_firewall_and_queue and solve_captcha
FirewallSignature(p) ==
    Has(Lower(p.req_unsuccessful)) /\ Has(Lower(p.incident_id))

\* faulty variant: the login banner is tested before the firewall signature
check_login_before_firewall(p) ==
    IF Has(Lower(p.queue_url)) THEN "queue"
    ELSE IF Has(Lower(p.login_banner)) THEN "login_required"
    ELSE IF FirewallSignature(p) THEN "firewall"
    ELSE IF Has(Lower(p.oops)) THEN "error"
    ELSE "ok"

check_firewall_and_queue(p) ==
    IF Has(Lower(p.queue_url)) THEN "queue"
    ELSE IF FirewallSignature(p) THEN "firewall"
    ELSE IF Has(Lower(p.login_banner)) THEN "login_required"
    ELSE IF Has(Lower(p.oops)) THEN "error"
    ELSE "ok"

\* faulty variant: manual mode also clicks when the signature is shown
solve_captcha_manual_clicks(p, skip, exc) ==
    IF ~skip /\ exc THEN [solved |-> FALSE, click |-> FALSE, wait |-> 0]
    ELSE IF FirewallSignature(p) THEN [solved |-> ~skip, click |-> TRUE, wait |-> 2]
    ELSE [solved |-> ~skip, click |-> FALSE, wait |-> IF skip THEN 60 ELSE 0]

\* solve_captcha(driver, skip, ...): exc is "the driver raised inside the try".
\* Returns the boolean and whether a hardware click was attempted.
solve_captcha(p, skip, exc) ==
    IF skip THEN [solved |-> FALSE, click |-> FALSE, wait |-> 60]
    ELSE IF exc THEN [solved |-> FALSE, click |-> FALSE, wait |-> 0]
    ELSE IF FirewallSignature(p) THEN [solved |-> TRUE, click |-> TRUE, wait |-> 2]
    ELSE [solved |-> TRUE, click |-> FALSE, wait |-> 0]

-----------------------------------------------------------------------------
(* Observation record: counts of what one call of a procedure has done.    *)

Obs0 ==
    [nClass |-> 0,          \* calls of check_firewall_and_queue
     nIter |-> 0,           \* iterations of the while loop begun
     nFirewall |-> 0,       \* iterations that took the firewall branch
     nCaptcha |-> 0,        \* calls of solve_captcha
     nRefresh |-> 0,        \* driver.refresh() inside the loop
     nFallback |-> 0,       \* driver.refresh() after the loop (fallback)
     nonQueue |-> FALSE,    \* some classification was not "queue"
     endedOn |-> "none",    \* the status the loop ended on, or "ceiling"
     nCandidate |-> 0,      \* successful clicks of "i-am-candidate"
     candidateAt |-> 0,     \* the attempt of the last successful click, 0 when none
     nConfirm |-> 0,        \* clicks of "confirm-changes"
     taken |-> FALSE,       \* "the time chosen is no longer available" was seen
     outcome |-> "none",    \* how book_test_flow ended
     smsAvail |-> "none",   \* send_text_available: "sent" or "failed" once called
     smsFound |-> "none",   \* send_text_test_found: "sent" or "failed" once called
     smsFlag |-> "none",    \* the short-notice wording of the test-found message
     smsLost |-> FALSE,     \* a notification of this attempt was not delivered
     creds |-> FALSE,       \* the credentials have been entered on this session
     terminal |-> FALSE,    \* a classification returned a terminal failure state
     late |-> FALSE,        \* the page was interacted with after that
     caught |-> FALSE,      \* an exception reached the top-level handler
     shot |-> FALSE,        \* the handler attempted a screenshot
     backoff |-> 0,         \* seconds the handler slept
     centre |-> "",         \* centre_to_search of search_and_book
     script |-> 0,          \* iterations that followed C11_Script so far, or -1
     fwUnresolved |-> FALSE,  \* the firewall iteration just ended unresolved
     fwSleep |-> 0,         \* base of the long sleep of that iteration, if any
     prevSleep |-> 0,       \* the same for the firewall iteration right before
     believed |-> FALSE,    \* solve_captcha returned True, no classification since
     unverified |-> FALSE,  \* the caller went on (interaction, success) meanwhile
     loginFail |-> "none",  \* login ended on "bad_credentials" or "cancelled"
     loginFinal |-> "none"] \* the final classification of login on this session

\* error, or login_required once the credentials were entered
TerminalFailure(st, creds) ==
    st = "error" \/ (st = "login_required" /\ creds)

\* one more classification, with result st
Seen(o, st) ==
    [o EXCEPT !.nClass = @ + 1,
              !.nonQueue = @ \/ st # "queue",
              !.terminal = @ \/ TerminalFailure(st, o.creds),
              !.believed = FALSE]

\* solve_captcha returned the boolean b
Believed(o, b) == [o EXCEPT !.believed = b]

\* the captcha handler did not resolve the firewall
Unresolved(o) == [o EXCEPT !.terminal = TRUE]

\* a page interaction: click, typing, refresh or navigation
Touch(o) == [o EXCEPT !.late = @ \/ o.terminal, !.unverified = @ \/ o.believed]

\* the record of a new call on the same session
NewCall(o) ==
    [Obs0 EXCEPT !.creds = o.creds, !.terminal = o.terminal, !.late = o.late,
                 !.loginFail = o.loginFail, !.loginFinal = o.loginFinal]

\* the status is one of the terminal statuses of the queue loop
BreakStatus(st) == st \in {"login_required", "error", "ok"}

-----------------------------------------------------------------------------
(* Initial values of the parts a behaviour does not use *)

\* now: the clock reading of the time test under way (NoReading when none is);
\* inHours: some attempt of the run started within operating hours
NoReading == 0 - 1
Run0 == [attempt |-> 0, started |-> 0, k |-> 0, after |-> "none", loaded |-> <<>>,
         now |-> NoReading, inHours |-> FALSE]
Bot0 == [driver |-> 0, active |-> FALSE, current_centre_index |-> 0]
Bk0 == [attempt |-> 0, i_am_candidate_clicked |-> FALSE, test_taken |-> FALSE,
        success |-> FALSE, auto_book_test |-> FALSE, skip |-> FALSE,
        short_notice |-> FALSE,     \* read by search_and_book only
        ret |-> "none"]
Prefs0 == [center |-> <<>>, current_test_date |-> "", auto_book_test |-> FALSE,
           before_date |-> "", after_date |-> "", disabled_dates |-> {}]

Idle ==
    /\ status = "none" /\ solved = FALSE /\ loop_count = 0 /\ obs = Obs0
    /\ run = Run0 /\ bot = Bot0 /\ preferences = Prefs0 /\ browsers = {}
    /\ bk = Bk0 /\ scanIn = <<>> /\ scanOut = <<>> /\ mouse = <<>>

-----------------------------------------------------------------------------
(* check_firewall_and_queue applied to an arbitrary page *)

InitClassify ==
    /\ mode = "classify" /\ pc = "c_start"
    /\ page \in AllPages
    /\ Idle

\* faulty variant: the classification reloads the page it has read
Classify_reloads ==
    /\ pc = "c_start"
    /\ status' = check_firewall_and_queue(page)
    /\ \E p \in FlowPages : page' = p
    /\ pc' = "done"
    /\ UNCHANGED <<mode, solved, loop_count, obs, runVars, bookVars, scanVars>>

Classify ==
    /\ pc = "c_start"
    /\ status' = check_firewall_and_queue(page)
    /\ pc' = "done"
    /\ UNCHANGED <<mode, page, solved, loop_count, obs, runVars, bookVars, scanVars>>

NextClassify == Classify

SpecClassify == InitClassify /\ [][NextClassify]_vars

\* the sessions a classification is made on: login classifies with the
\* session inactive, search_and_book with it active and the index rotated
Sessions ==
    {[Bot0 EXCEPT !.driver = 1, !.active = a, !.current_centre_index = i] :
        a \in BOOLEAN, i \in 0..1}

InitClassifySession ==
    /\ mode = "classify" /\ pc = "c_start"
    /\ page \in AllPages
    /\ status = "none" /\ solved = FALSE /\ loop_count = 0 /\ obs = Obs0
    /\ run = Run0 /\ preferences = Prefs0
    /\ bot \in Sessions /\ browsers = {1}
    /\ bk = Bk0 /\ scanIn = <<>> /\ scanOut = <<>> /\ mouse = <<>>

SpecClassifySession == InitClassifySession /\ [][NextClassify]_vars

\* the marker text occurs in the page, in whatever capitalisation
Occurs(c) == c # "none"

-----------------------------------------------------------------------------
(* solve_captcha and clicker.hardware_click_range on their own *)

\* largest screen coordinate explored
MaxCoord == 2

Coords == 0..MaxCoord
Points == Coords \X Coords

\* bottom_left=None
NoCorner == <<>>

\* _perform_click(x, y): moveTo, mouseDown, mouseUp; raised says PyAutoGUI
\* raised before the button went down
perform_click(x, y, raised) ==
    IF raised THEN [clicks |-> <<>>, ret |-> FALSE]
    ELSE [clicks |-> << <<x, y>> >>, ret |-> TRUE]

\* faulty variant: a box of no width or height is accepted
InvalidBox_strict(x1, y1, x2, y2) == x2 < x1 \/ y2 < y1

\* if x2 <= x1 or y2 <= y1: "Invalid bounding box"
InvalidBox(x1, y1, x2, y2) == x2 <= x1 \/ y2 <= y1

\* hardware_click_range(top_right, bottom_left): ux, uy are the values of
\* random.uniform(x1, x2) and random.uniform(y1, y2)
hardware_click_range(top_right, bottom_left, ux, uy, raised) ==
    IF bottom_left = NoCorner
      THEN perform_click(top_right[1], top_right[2], raised)
      ELSE LET x1 == bottom_left[1]
               y1 == bottom_left[2]
               x2 == top_right[1]
               y2 == top_right[2]
           IN  IF InvalidBox(x1, y1, x2, y2)
                 THEN [clicks |-> <<>>, ret |-> FALSE]
                 ELSE perform_click(ux, uy, raised)

\* the values random.uniform(a, b) can return
Uniform(a, b) == IF a <= b THEN a..b ELSE b..a

\* the draws made for one call: none is made for a single point or an
\* invalid box
Draws(top_right, bottom_left) ==
    IF bottom_left = NoCorner
         \/ InvalidBox(bottom_left[1], bottom_left[2], top_right[1], top_right[2])
      THEN {<<0, 0>>}
      ELSE Uniform(bottom_left[1], top_right[1]) \X Uniform(bottom_left[2], top_right[2])

\* pages with the whole signature, half of it, and none of it
ClickPages == FlowPages \cup {[BlankPage EXCEPT !.req_unsuccessful = "mixed"]}

Mouse0(skip, top_right, bottom_left) ==
    [skip |-> skip, top_right |-> top_right, bottom_left |-> bottom_left,
     exc |-> FALSE,          \* the driver raised inside the try
     called |-> 0,           \* calls of hardware_click_range
     clicks |-> <<>>,        \* the points clicked, in order
     click_ret |-> "none",   \* what hardware_click_range returned
     slept |-> 0,            \* seconds slept by solve_captcha
     ret |-> "none"]         \* what solve_captcha returned

InitClick ==
    /\ mode = "click" /\ pc = "k_start"
    /\ page \in ClickPages
    /\ status = "none" /\ solved = FALSE /\ loop_count = 0 /\ obs = Obs0
    /\ run = Run0 /\ bot = Bot0 /\ preferences = Prefs0 /\ browsers = {}
    /\ bk = Bk0 /\ scanIn = <<>> /\ scanOut = <<>>
    /\ \E skip \in BOOLEAN, tr \in Points, bl \in Points \cup {NoCorner} :
          mouse = Mouse0(skip, tr, bl)

\* solve_captcha up to the call of hardware_click_range, or to its return
\* when no click is made
K_Solve ==
    /\ pc = "k_start"
    /\ \E exc \in BOOLEAN :
          LET r == solve_captcha(page, mouse.skip, exc)
          IN  IF r.click
                THEN /\ mouse' = [mouse EXCEPT !.called = @ + 1]
                     /\ pc' = "k_click"
                     /\ UNCHANGED solved
                ELSE /\ mouse' = [mouse EXCEPT !.exc = exc /\ ~mouse.skip, !.slept = r.wait,
                                               !.ret = r.solved]
                     /\ solved' = r.solved
                     /\ pc' = "done"
    /\ UNCHANGED <<mode, page, status, loop_count, obs, runVars, bookVars, scanIn, scanOut>>

\* hardware_click_range(...), time.sleep(random.uniform(1.5, 2.5)), return True
K_Click ==
    /\ pc = "k_click"
    /\ \E u \in Draws(mouse.top_right, mouse.bottom_left), raised \in BOOLEAN :
          LET c == hardware_click_range(mouse.top_right, mouse.bottom_left,
                                        u[1], u[2], raised)
              r == solve_captcha(page, mouse.skip, FALSE)
          IN  /\ mouse' = [mouse EXCEPT !.clicks = @ \o c.clicks, !.click_ret = c.ret,
                                        !.slept = r.wait, !.ret = r.solved]
              /\ solved' = r.solved
    /\ pc' = "done"
    /\ UNCHANGED <<mode, page, status, loop_count, obs, runVars, bookVars, scanIn, scanOut>>

NextClick == K_Solve \/ K_Click

SpecClick == InitClick /\ [][NextClick]_vars

\* both marker texts of the firewall signature occur in the page
C23_Signature(p) == Occurs(p.req_unsuccessful) /\ Occurs(p.incident_id)

\* C23 as stated: manual mode only waits and clicks nothing; automatic mode
\* attempts exactly one click when the signature is on the page and none
\* when it is not, and pauses before it returns its boolean.
C23_TwoModes ==
    mode = "click" /\ pc = "done" =>
        /\ mouse.ret \in BOOLEAN
        /\ mouse.skip => mouse.called = 0 /\ mouse.clicks = <<>> /\ mouse.slept > 0
        /\ ~mouse.skip /\ ~mouse.exc =>
              /\ mouse.called = (IF C23_Signature(page) THEN 1 ELSE 0)
              /\ Len(mouse.clicks) <= mouse.called
              /\ mouse.slept > 0

\* C23 amended: manual mode waits 60 s, clicks nothing and returns False.
\* Automatic mode with the signature on the page calls hardware_click_range
\* exactly once, pauses and returns True; without the signature it clicks
\* nothing and returns True without a pause; when reading the page raises
\* it clicks nothing and returns False without a pause.
C23_TwoModesPauseAfterClick ==
    mode = "click" /\ pc = "done" =>
        /\ mouse.ret \in BOOLEAN
        /\ mouse.skip =>
              mouse.called = 0 /\ mouse.clicks = <<>> /\ mouse.slept = 60 /\ mouse.ret = FALSE
        /\ ~mouse.skip /\ mouse.exc =>
              mouse.called = 0 /\ mouse.clicks = <<>> /\ mouse.slept = 0 /\ mouse.ret = FALSE
        /\ ~mouse.skip /\ ~mouse.exc /\ C23_Signature(page) =>
              /\ mouse.called = 1 /\ Len(mouse.clicks) <= 1
              /\ mouse.slept > 0 /\ mouse.ret = TRUE
        /\ ~mouse.skip /\ ~mouse.exc /\ ~C23_Signature(page) =>
              mouse.called = 0 /\ mouse.clicks = <<>> /\ mouse.slept = 0 /\ mouse.ret = TRUE

\* automatic mode on the firewall page: one click, the pause, True
C23_Witness ==
    /\ mode = "click" /\ pc = "done"
    /\ ~mouse.skip /\ page = FirewallPage
    /\ mouse.called = 1 /\ Len(mouse.clicks) = 1 /\ mouse.slept > 0 /\ mouse.ret = TRUE

-----------------------------------------------------------------------------
(* DVSABot.handle_queue_and_firewall *)

\* where an exception that leaves the current procedure is handled
Propagate ==
    IF mode = "reschedule" THEN "r_except" ELSE "raised"

\* where handle_queue_and_firewall returns to
QueueReturn ==
    IF mode = "reschedule" THEN "l_creds" ELSE "done"

\* faulty variant: the ceiling test after the loop is off by one
CeilingReached_off_by_one(n) == n > max_queue_checks

\* `if loop_count >= max_queue_checks` after the loop
CeilingReached(n) == n >= max_queue_checks

InitQueue ==
    /\ mode = "queue" /\ pc = "q_check"
    /\ page \in FlowPages
    /\ Idle

\* the classification sequence of the retry-loop scenario
C11_Script == <<"queue", "queue", "firewall", "ok">>

\* how far the iterations have followed C11_Script once status st is added
Follow(n, st) ==
    IF n >= 0 /\ n < Len(C11_Script) /\ st = C11_Script[n + 1] THEN n + 1 ELSE -1

\* random_sleep(180, 10): the base of the sleep when the firewall is still there
still_firewall_delay == 180

\* the pages the site may serve after the n-th queue wait: any page, and
\* inside a run only the waiting room again once MaxQueueWaits waits are over
AfterWait(n) ==
    IF mode = "queue" \/ n <= MaxQueueWaits THEN FlowPages ELSE {QueuePage}

\* while loop_count < max_queue_checks: status = check_firewall_and_queue(driver)
HQF_Classify ==
    /\ pc = "q_check"
    /\ loop_count < max_queue_checks
    /\ status' = check_firewall_and_queue(page)
    /\ obs' = Seen([obs EXCEPT !.nIter = @ + 1, !.script = Follow(@, status')], status')
    /\ pc' = "q_branch"
    /\ UNCHANGED <<mode, page, solved, loop_count, runVars, bookVars, scanVars>>

\* faulty variant: the queue branch refreshes the page as well
HQF_Queue_with_refresh ==
    /\ pc = "q_branch"
    /\ status = "queue"
    /\ \E p \in AfterWait(loop_count + 1) : page' = p
    /\ loop_count' = loop_count + 1
    /\ obs' = Touch([obs EXCEPT !.fwUnresolved = FALSE, !.fwSleep = 0, !.prevSleep = 0,
                                !.nRefresh = @ + 1])
    /\ pc' = "q_check"
    /\ UNCHANGED <<mode, status, solved, runVars, bookVars, scanVars>>

\* status == "queue": random_sleep(0.5, 1.5); loop_count += 1; continue
HQF_Queue ==
    /\ pc = "q_branch"
    /\ status = "queue"
    /\ \E p \in AfterWait(loop_count + 1) : page' = p
    /\ loop_count' = loop_count + 1
    /\ obs' = [obs EXCEPT !.fwUnresolved = FALSE, !.fwSleep = 0, !.prevSleep = 0]
    /\ pc' = "q_check"
    /\ UNCHANGED <<mode, status, solved, runVars, bookVars, scanVars>>

\* status == "firewall": random_sleep(0.5, 2.5); solved = solve_captcha(...)
HQF_Firewall ==
    /\ pc = "q_branch"
    /\ status = "firewall"
    /\ obs.nFirewall < MaxFirewall
    /\ \E p \in FlowPages, exc \in BOOLEAN :
          LET r == solve_captcha(p, SOLVE_MANUALLY, exc)
              o1 == [obs EXCEPT !.nFirewall = @ + 1, !.nCaptcha = @ + 1]
              o2 == IF r.click THEN Touch(o1) ELSE o1
          IN  /\ page' = p
              /\ solved' = r.solved
              /\ obs' = IF r.solved THEN Believed(o2, TRUE) ELSE Unresolved(o2)
    /\ pc' = "q_solved"
    /\ UNCHANGED <<mode, status, loop_count, runVars, bookVars, scanVars>>

\* if solved: time.sleep(3); re-check, random_sleep(180, 10) when still
\* firewall; else: log only.  Then driver.refresh().
HQF_AfterCaptcha ==
    /\ pc = "q_solved"
    /\ \E p \in FlowPages, p2 \in FlowPages :
          LET again == check_firewall_and_queue(p)
              o1 == IF ~solved THEN obs
                    ELSE IF again = "firewall" THEN Unresolved(Seen(obs, again))
                    ELSE Seen(obs, again)
              slept == IF solved /\ again = "firewall" THEN still_firewall_delay ELSE 0
              o2 == [o1 EXCEPT !.fwUnresolved = ~solved \/ again = "firewall",
                               !.prevSleep = obs.fwSleep,
                               !.fwSleep = slept]
          IN  /\ obs' = Touch([o2 EXCEPT !.nRefresh = @ + 1])
              /\ page' = p2
    /\ pc' = "q_check"
    /\ UNCHANGED <<mode, status, solved, loop_count, runVars, bookVars, scanVars>>

\* faulty variant: ok does not leave the loop
HQF_Break_ok_continues ==
    /\ pc = "q_branch"
    /\ BreakStatus(status)
    /\ obs' = IF status = "ok" THEN obs ELSE [obs EXCEPT !.endedOn = status]
    /\ pc' = IF status = "ok" THEN "q_check" ELSE "q_exit"
    /\ UNCHANGED <<mode, page, queueVars, runVars, bookVars, scanVars>>

\* status in (login_required, error, ok): break
HQF_Break ==
    /\ pc = "q_branch"
    /\ BreakStatus(status)
    /\ obs' = [obs EXCEPT !.endedOn = status]
    /\ pc' = "q_exit"
    /\ UNCHANGED <<mode, page, queueVars, runVars, bookVars, scanVars>>

\* the while condition is false
HQF_LoopEnd ==
    /\ pc = "q_check"
    /\ ~(loop_count < max_queue_checks)
    /\ obs' = [obs EXCEPT !.endedOn = "ceiling"]
    /\ pc' = "q_exit"
    /\ UNCHANGED <<mode, page, queueVars, runVars, bookVars, scanVars>>

\* if loop_count >= max_queue_checks: driver.refresh(); return
HQF_Exit ==
    /\ pc = "q_exit"
    /\ IF CeilingReached(loop_count)
          THEN /\ obs' = Touch([obs EXCEPT !.nFallback = @ + 1])
               /\ \E p \in FlowPages : page' = p
          ELSE UNCHANGED <<obs, page>>
    /\ pc' = QueueReturn
    /\ UNCHANGED <<mode, queueVars, runVars, bookVars, scanVars>>

\* a driver call outside any try raises (current_url, page_source, refresh)
HQF_Raise ==
    /\ \/ pc = "q_check" /\ loop_count < max_queue_checks
       \/ pc = "q_solved"
       \/ pc = "q_exit" /\ CeilingReached(loop_count)
    /\ pc' = Propagate
    /\ obs' = IF mode = "reschedule"
                THEN [NewCall(obs) EXCEPT !.caught = TRUE] ELSE obs
    /\ status' = "none" /\ solved' = FALSE /\ loop_count' = 0
    /\ UNCHANGED <<mode, page, runVars, bookVars, scanVars>>

HQF ==
    \/ HQF_Classify \/ HQF_Queue \/ HQF_Firewall \/ HQF_AfterCaptcha
    \/ HQF_Break \/ HQF_LoopEnd \/ HQF_Exit \/ HQF_Raise

NextQueue == HQF

SpecQueue == InitQueue /\ [][NextQueue]_vars

\* C1: the queue/firewall loop ends after at most its ceiling of 100
\* iterations, whatever the sequence of page classifications.
C1_LoopBounded == obs.nIter <= max_queue_checks

\* C10: when every classification is queue the loop ends at the ceiling after
\* exactly 100 classifications and one fallback refresh; the fallback refresh
\* happens only at the ceiling, never after login_required, error or ok.
C10_FallbackOnlyAtCeiling ==
    /\ obs.nFallback <= 1
    /\ obs.nFallback = 1 => obs.endedOn = "ceiling" /\ loop_count = max_queue_checks
    /\ mode = "queue" /\ pc = "done" =>
          /\ ~obs.nonQueue => /\ obs.nClass = max_queue_checks
                               /\ obs.nFallback = 1
                               /\ obs.endedOn = "ceiling"
          /\ BreakStatus(obs.endedOn) => obs.nFallback = 0

C10_Witness ==
    /\ mode = "queue" /\ pc = "done"
    /\ ~obs.nonQueue
    /\ obs.nClass = max_queue_checks
    /\ obs.nFallback = 1

\* C11: when the iterations of the loop classify queue, queue, firewall, ok,
\* the captcha handler is invoked at most once and the loop ends on the ok:
\* no further iteration, the call returns with the loop ended on ok.
C11_ScriptedRun ==
    /\ [](mode = "queue" /\ obs.script = Len(C11_Script) =>
             /\ obs.nCaptcha <= 1
             /\ obs.nIter = Len(C11_Script)
             /\ status = "ok"
             /\ pc \in {"q_branch", "q_exit", "done"}
             /\ pc = "done" => obs.endedOn = "ok" /\ obs.nFallback = 0)
    /\ [][(mode = "queue" /\ obs.script = Len(C11_Script)) =>
             (/\ obs'.nIter = obs.nIter
              /\ obs'.nCaptcha = obs.nCaptcha
              /\ pc' \in {"q_exit", "done"})]_vars

C11_Witness ==
    /\ mode = "queue" /\ pc = "done"
    /\ obs.script = Len(C11_Script)
    /\ obs.nCaptcha = 1 /\ obs.nClass = Len(C11_Script) + 1
    /\ obs.endedOn = "ok"

\* a step that starts no iteration, calls no captcha handler and refreshes nothing
C12_NoWork ==
    /\ obs'.nIter = obs.nIter
    /\ obs'.nCaptcha = obs.nCaptcha
    /\ obs'.nRefresh = obs.nRefresh
    /\ obs'.nFallback = obs.nFallback

\* C12: in each iteration the classification determines the action.  queue:
\* only the sleep, then the next iteration.  firewall: one call of the captcha
\* handler, then one refresh, then the next iteration (or the refresh raises).
\* login_required, error, ok: the loop is left at once and the call returns,
\* with no captcha call and no refresh.
C12_ActionPerStatus ==
    [][mode = "queue" =>
         /\ (pc = "q_branch" /\ status = "queue") =>
                (pc' = "q_check" /\ C12_NoWork)
         /\ (pc = "q_branch" /\ status = "firewall") =>
                (/\ pc' = "q_solved"
                 /\ obs'.nCaptcha = obs.nCaptcha + 1
                 /\ obs'.nRefresh = obs.nRefresh
                 /\ obs'.nIter = obs.nIter)
         /\ (pc = "q_solved") =>
                (\/ /\ pc' = "q_check"
                    /\ obs'.nCaptcha = obs.nCaptcha
                    /\ obs'.nRefresh = obs.nRefresh + 1
                    /\ obs'.nIter = obs.nIter
                 \/ pc' = "raised")
         /\ (pc = "q_branch" /\ BreakStatus(status)) =>
                (pc' = "q_exit" /\ C12_NoWork)
         /\ (pc = "q_exit" /\ BreakStatus(obs.endedOn)) =>
                (pc' = "done" /\ C12_NoWork)]_vars

\* a firewall iteration has been completed: one captcha call, one refresh
C12_Witness ==
    /\ mode = "queue" /\ pc = "q_check"
    /\ status = "firewall"
    /\ obs.nIter = 1 /\ obs.nCaptcha = 1 /\ obs.nRefresh = 1

\* C13: whenever a firewall iteration ends unresolved (the captcha handler
\* reported not-resolved, or the page was still firewall after it) a long
\* sleep has been applied before the next retry.
C13_LongSleepOnFailure ==
    obs.fwUnresolved => obs.fwSleep > 0

\* C14: on consecutive unresolved firewall detections in one run of the loop
\* the base delay of each long sleep is strictly larger than the previous one.
C14_BackoffEscalates ==
    obs.fwSleep > 0 /\ obs.prevSleep > 0 => obs.fwSleep > obs.prevSleep

-----------------------------------------------------------------------------
(* book_test_flow *)

booking_attempts == 4

Outcomes == {"ok", "nosuch", "exc"}

\* where book_test_flow returns to, and where an exception leaving it lands
BookReturn == IF mode = "reschedule" THEN "s_booked" ELSE "done"
BookPropagate == IF mode = "reschedule" THEN "s_failed" ELSE "raised"

InitBook ==
    /\ mode = "book" /\ pc = "b_loop"
    /\ page \in FlowPages
    /\ status = "none" /\ solved = FALSE /\ loop_count = 0 /\ obs = Obs0
    /\ run = Run0 /\ bot = Bot0 /\ preferences = Prefs0 /\ browsers = {}
    /\ \E a \in BOOLEAN, m \in BOOLEAN :
          bk = [Bk0 EXCEPT !.auto_book_test = a, !.skip = m]
    /\ scanIn = <<>> /\ scanOut = <<>> /\ mouse = <<>>

\* faulty variant: one attempt more than booking_attempts
B_Loop_one_more_attempt ==
    /\ pc = "b_loop"
    /\ IF bk.attempt <= booking_attempts
          THEN /\ bk' = [bk EXCEPT !.attempt = @ + 1]
               /\ pc' = "b_candidate"
          ELSE /\ pc' = "b_finish"
               /\ UNCHANGED bk
    /\ UNCHANGED <<mode, page, queueVars, obs, runVars, scanVars>>

\* for attempt in range(booking_attempts): time.sleep(0.3)
B_Loop ==
    /\ pc = "b_loop"
    /\ IF bk.attempt < booking_attempts
          THEN /\ bk' = [bk EXCEPT !.attempt = @ + 1]
               /\ pc' = "b_candidate"
          ELSE /\ pc' = "b_finish"
               /\ UNCHANGED bk
    /\ UNCHANGED <<mode, page, queueVars, obs, runVars, scanVars>>

\* faulty variant: the flag is not consulted, every attempt clicks
CandidateGuard_ignores_flag(clicked) == FALSE

\* if not i_am_candidate_clicked:
CandidateGuard(clicked) == clicked

\* if not i_am_candidate_clicked: find_element("i-am-candidate").click()
B_Candidate ==
    /\ pc = "b_candidate"
    /\ IF CandidateGuard(bk.i_am_candidate_clicked)
          THEN /\ pc' = "b_frame"
               /\ UNCHANGED <<bk, obs>>
          ELSE \E r \in Outcomes :
                 CASE r = "ok" ->
                        /\ bk' = [bk EXCEPT !.i_am_candidate_clicked = TRUE]
                        /\ obs' = Touch([obs EXCEPT !.nCandidate = @ + 1,
                                                    !.candidateAt = bk.attempt])
                        /\ pc' = "b_frame"
                   [] r = "nosuch" ->
                        \* except NoSuchElementException: success = True; break
                        /\ bk' = [bk EXCEPT !.success = TRUE]
                        /\ pc' = "b_finish"
                        /\ UNCHANGED obs
                   [] r = "exc" ->
                        \* except Exception: log, fall to the retry tail
                        /\ pc' = "b_tail"
                        /\ UNCHANGED <<bk, obs>>
    /\ \E p \in FlowPages : page' = p
    /\ UNCHANGED <<mode, queueVars, runVars, scanVars>>

\* faulty variant: the slot-taken text does not leave the loop
B_Frame_taken_no_break ==
    /\ pc = "b_frame"
    /\ \E r \in {"exc", "taken", "clear"} :
          CASE r = "exc" -> pc' = "b_tail" /\ UNCHANGED <<bk, obs>>
            [] r = "taken" ->
                 /\ bk' = [bk EXCEPT !.test_taken = TRUE]
                 /\ obs' = [obs EXCEPT !.taken = TRUE]
                 /\ pc' = "b_captcha"
            [] r = "clear" -> pc' = "b_captcha" /\ UNCHANGED <<bk, obs>>
    /\ UNCHANGED <<mode, page, queueVars, runVars, scanVars>>

\* switch to main-iframe when present; look for "the time chosen is no
\* longer available" in page_source.lower()
B_Frame ==
    /\ pc = "b_frame"
    /\ \E r \in {"exc", "taken", "clear"} :
          CASE r = "exc" -> pc' = "b_tail" /\ UNCHANGED <<bk, obs>>
            [] r = "taken" ->
                 /\ bk' = [bk EXCEPT !.test_taken = TRUE]
                 /\ obs' = [obs EXCEPT !.taken = TRUE]
                 /\ pc' = "b_finish"
            [] r = "clear" -> pc' = "b_captcha" /\ UNCHANGED <<bk, obs>>
    /\ UNCHANGED <<mode, page, queueVars, runVars, scanVars>>

\* solved = solve_captcha(...); success = True; break
B_Captcha ==
    /\ pc = "b_captcha"
    /\ \E exc \in BOOLEAN :
          LET r == solve_captcha(page, bk.skip, exc)
              o1 == [obs EXCEPT !.nCaptcha = @ + 1]
          IN  /\ solved' = r.solved
              /\ obs' = Believed(IF r.click THEN Touch(o1) ELSE o1, r.solved)
    /\ bk' = [bk EXCEPT !.success = TRUE]
    /\ \E p \in FlowPages : page' = p
    /\ pc' = "b_finish"
    /\ UNCHANGED <<mode, status, loop_count, runVars, scanVars>>

\* after a failed attempt: default_content, sleep, refresh when the Imperva
\* puzzle is still shown
B_Tail ==
    /\ pc = "b_tail"
    /\ \E p \in FlowPages, puzzle \in BOOLEAN :
          /\ page' = p
          /\ obs' = IF puzzle THEN Touch(obs) ELSE obs
    /\ pc' = "b_loop"
    /\ UNCHANGED <<mode, queueVars, runVars, bk, scanVars>>

\* a driver call of the retry tail raises something other than NoSuchElement
B_Raise ==
    /\ pc = "b_tail"
    /\ obs' = [obs EXCEPT !.outcome = "raised"]
    /\ pc' = BookPropagate
    /\ UNCHANGED <<mode, page, queueVars, runVars, bk, scanVars>>

\* faulty variant: the final confirmation does not look at auto_book_test
B_Finish_always_confirm ==
    /\ pc = "b_finish"
    /\ IF bk.test_taken
          THEN /\ bk' = [bk EXCEPT !.ret = FALSE]
               /\ obs' = [obs EXCEPT !.outcome = "slot-taken"]
               /\ pc' = BookReturn
          ELSE IF ~bk.success
          THEN /\ bk' = [bk EXCEPT !.ret = FALSE]
               /\ obs' = [obs EXCEPT !.outcome = "failed"]
               /\ pc' = BookReturn
          ELSE /\ pc' = "b_confirm"
               /\ UNCHANGED <<bk, obs>>
    /\ UNCHANGED <<mode, page, queueVars, runVars, scanVars>>

\* if test_taken: return False; if not success: return False;
\* if auto_book_test: ... else: return True
B_Finish ==
    /\ pc = "b_finish"
    /\ IF bk.test_taken
          THEN /\ bk' = [bk EXCEPT !.ret = FALSE]
               /\ obs' = [obs EXCEPT !.outcome = "slot-taken"]
               /\ pc' = BookReturn
          ELSE IF ~bk.success
          THEN /\ bk' = [bk EXCEPT !.ret = FALSE]
               /\ obs' = [obs EXCEPT !.outcome = "failed"]
               /\ pc' = BookReturn
          ELSE IF bk.auto_book_test
          THEN /\ pc' = "b_confirm"
               /\ UNCHANGED <<bk, obs>>
          ELSE /\ bk' = [bk EXCEPT !.ret = TRUE]
               /\ obs' = [obs EXCEPT !.outcome = "stopped-before-confirmation",
                                     !.unverified = @ \/ obs.believed]
               /\ pc' = BookReturn
    /\ UNCHANGED <<mode, page, queueVars, runVars, scanVars>>

\* faulty variant: a missing confirm-changes button is reported as success
B_Confirm_missing_is_success ==
    /\ pc = "b_confirm"
    /\ \E r \in Outcomes :
          IF r = "ok"
            THEN /\ obs' = Touch([obs EXCEPT !.nConfirm = @ + 1])
                 /\ pc' = "b_confirmed"
                 /\ UNCHANGED bk
            ELSE /\ bk' = [bk EXCEPT !.ret = TRUE]
                 /\ obs' = [obs EXCEPT !.outcome = "failed"]
                 /\ pc' = BookReturn
    /\ \E p \in FlowPages : page' = p
    /\ UNCHANGED <<mode, queueVars, runVars, scanVars>>

\* driver.find_element(By.ID, "confirm-changes").click(); time.sleep(1)
B_Confirm ==
    /\ pc = "b_confirm"
    /\ \E r \in Outcomes :
          IF r = "ok"
            THEN /\ obs' = Touch([obs EXCEPT !.nConfirm = @ + 1])
                 /\ pc' = "b_confirmed"
                 /\ UNCHANGED bk
            ELSE /\ bk' = [bk EXCEPT !.ret = FALSE]
                 /\ obs' = [obs EXCEPT !.outcome = "failed"]
                 /\ pc' = BookReturn
    /\ \E p \in FlowPages : page' = p
    /\ UNCHANGED <<mode, queueVars, runVars, scanVars>>

\* page_status = check_firewall_and_queue(driver); on firewall: sleep,
\* refresh, re-check, solve_captcha, fail when "imperva" is still in the page
B_ConfirmCheck ==
    /\ pc = "b_confirmed"
    /\ status' = check_firewall_and_queue(page)
    /\ \E p \in FlowPages, exc \in BOOLEAN, imperva \in BOOLEAN, raised \in BOOLEAN :
          LET fw == status' = "firewall" /\ ~raised
              st2 == check_firewall_and_queue(p)
              again == fw /\ st2 = "firewall"
              r == solve_captcha(p, bk.skip, exc)
              o1 == Seen(obs, status')
              o2 == IF fw THEN Seen(Touch(o1), st2) ELSE o1
              o3 == IF again THEN [o2 EXCEPT !.nCaptcha = @ + 1] ELSE o2
              o4 == IF again /\ r.click THEN Touch(o3) ELSE o3
              failed == raised \/ (again /\ imperva)
          IN  /\ page' = p
              /\ solved' = IF again THEN r.solved ELSE solved
              /\ obs' = [o4 EXCEPT !.outcome = IF failed THEN "failed" ELSE "booked"]
              /\ bk' = [bk EXCEPT !.ret = ~failed]
    /\ pc' = BookReturn
    /\ UNCHANGED <<mode, loop_count, runVars, scanVars>>

Book ==
    \/ B_Loop \/ B_Candidate \/ B_Frame \/ B_Captcha \/ B_Tail \/ B_Raise
    \/ B_Finish \/ B_Confirm \/ B_ConfirmCheck

NextBook == Book

SpecBook == InitBook /\ [][NextBook]_vars

\* C5: book_test_flow clicks confirm-changes only if auto_book_test is set.
C5_ConfirmOnlyIfAutoBook ==
    /\ obs.nConfirm > 0 => bk.auto_book_test
    /\ pc \in {"b_confirm", "b_confirmed"} => bk.auto_book_test

C5_Witness ==
    /\ mode = "book" /\ pc = "done"
    /\ ~bk.auto_book_test /\ bk.success /\ bk.ret = TRUE
    /\ obs.nConfirm = 0

\* C6: once "time chosen is no longer available" has been seen, the finalizer
\* starts no further attempt, never invokes the captcha handler, never clicks
\* confirm-changes, and it returns the slot-taken failure.
C6_SlotTakenEndsFlow ==
    /\ [](mode = "book" /\ obs.taken /\ pc = "done" =>
             bk.ret = FALSE /\ obs.outcome = "slot-taken")
    /\ [][obs.taken =>
             /\ bk'.attempt = bk.attempt
             /\ obs'.nCaptcha = obs.nCaptcha
             /\ obs'.nConfirm = obs.nConfirm
             /\ obs'.nCandidate = obs.nCandidate
             /\ pc' \in {"b_finish", "done"}]_vars

C6_Witness ==
    /\ mode = "book" /\ pc = "done"
    /\ obs.taken /\ bk.auto_book_test /\ bk.attempt = 3
    /\ bk.ret = FALSE

\* C25: the finalizer begins at most 4 attempts; once the fourth has failed
\* with a caught error it begins no other, never clicks confirm-changes and
\* never returns True: it returns False, unless the retry tail itself raises.
C25_FourAttempts ==
    /\ [](mode = "book" => bk.attempt \in 0..4 /\ obs.nCandidate <= 1)
    /\ [](mode = "book" /\ pc = "done" /\ ~bk.success /\ ~bk.test_taken =>
             bk.attempt = 4 /\ bk.ret = FALSE /\ obs.nConfirm = 0)
    /\ [][mode = "book" /\ bk.attempt = 4 /\ pc \in {"b_tail", "b_loop"} =>
             /\ bk'.attempt = 4 /\ ~bk'.success /\ bk'.ret = "none"
             /\ obs'.nConfirm = 0 /\ obs'.nCandidate = obs.nCandidate
             /\ obs'.nCaptcha = obs.nCaptcha
             /\ pc' \in {"b_loop", "b_finish", "raised"}]_vars

\* the fourth attempt failed with auto-confirm set: False, nothing confirmed
C25_Witness ==
    /\ mode = "book" /\ pc = "done"
    /\ bk.auto_book_test /\ bk.attempt = 4 /\ ~bk.success /\ ~bk.test_taken
    /\ bk.ret = FALSE /\ obs.nConfirm = 0

\* C18 as stated: every execution of book_test_flow that returns ends in one
\* of booked, slot-taken, stopped-before-confirmation; slot-taken is reported
\* as failure and stopped-before-confirmation as success.
C18_ThreeOutcomes ==
    mode = "book" /\ pc = "done" =>
        /\ obs.outcome \in {"booked", "slot-taken", "stopped-before-confirmation"}
        /\ obs.outcome = "slot-taken" => bk.ret = FALSE
        /\ obs.outcome = "stopped-before-confirmation" => bk.ret = TRUE

\* C18 amended: an execution that returns ends in one of four outcomes.
\* slot-taken: the text was seen, False.  stopped-before-confirmation: auto
\* confirm unset, True.  booked: confirm-changes clicked once, True.  failed,
\* False: no attempt completed, or the confirmation could not be made.  True
\* is returned for booked and stopped-before-confirmation only; an execution
\* may also end by an exception of the retry tail, with no outcome.
C18_FourOutcomes ==
    /\ mode = "book" /\ pc = "done" =>
          /\ obs.outcome \in {"booked", "slot-taken", "stopped-before-confirmation", "failed"}
          /\ bk.ret \in BOOLEAN
          /\ bk.ret = TRUE <=> obs.outcome \in {"booked", "stopped-before-confirmation"}
          /\ obs.outcome = "slot-taken" <=> bk.test_taken
          /\ obs.outcome = "stopped-before-confirmation" <=>
                ~bk.test_taken /\ bk.success /\ ~bk.auto_book_test
          /\ obs.outcome = "booked" =>
                bk.success /\ bk.auto_book_test /\ obs.nConfirm = 1
          /\ obs.outcome = "failed" =>
                ~bk.test_taken /\ (~bk.success \/ bk.auto_book_test)
    /\ mode = "book" /\ pc = "raised" => bk.ret = "none" /\ obs.nConfirm = 0

\* all four attempts failed: the flow returns False without slot-taken
C18_Witness ==
    /\ mode = "book" /\ pc = "done"
    /\ obs.outcome = "failed" /\ bk.ret = FALSE
    /\ bk.attempt = booking_attempts /\ ~bk.success /\ ~obs.taken

-----------------------------------------------------------------------------
(* Dates.  A string is a record: k says what kind of text it is, and for   *)
(* a date text y, m, d are its numbers, t the minute of the day (long      *)
(* format only) and pad says whether month and day are zero-padded.  Two   *)
(* strings are equal when the records are; strptime maps a string to a     *)
(* datetime, counted in minutes, or raises.                                *)

Str(k, y, m, d, t, pad) == [k |-> k, y |-> y, m |-> m, d |-> d, t |-> t, pad |-> pad]

PyNone == Str("none", 0, 0, 0, 0, TRUE)          \* Python None
Empty == Str("empty", 0, 0, 0, 0, TRUE)          \* ""
NoneText == Str("None", 0, 0, 0, 0, TRUE)        \* the text "None"
Garbage == Str("text", 0, 0, 0, 0, TRUE)         \* text that is no date
YesText == Str("yes", 0, 0, 0, 0, TRUE)          \* text containing "Yes"
Ymd(y, m, d) == Str("ymd", y, m, d, 0, TRUE)     \* "%Y-%m-%d", zero-padded
YmdLoose(y, m, d) == Str("ymd", y, m, d, 0, FALSE)  \* same date, e.g. "2025-3-17"
Long(y, m, d, t) == Str("long", y, m, d, t, TRUE)   \* "%A %d %B %Y %I:%M%p"

\* bool(s) of an optional string
Truthy(s) == s.k \notin {"none", "empty"}

IsLeap(y) == (y % 4 = 0 /\ y % 100 # 0) \/ y % 400 = 0

DaysInMonth(y, m) ==
    IF m = 2 THEN (IF IsLeap(y) THEN 29 ELSE 28)
    ELSE IF m \in {4, 6, 9, 11} THEN 30 ELSE 31

RECURSIVE DaysBeforeMonth(_, _)
DaysBeforeMonth(y, m) ==
    IF m <= 1 THEN 0 ELSE DaysBeforeMonth(y, m - 1) + DaysInMonth(y, m - 1)

\* date.toordinal(): 0001-01-01 is day 1
Ordinal(y, m, d) ==
    LET p == y - 1
    IN  p * 365 + (p \div 4) - (p \div 100) + (p \div 400) + DaysBeforeMonth(y, m) + d

MinutesPerDay == 1440

ValidDate(s) ==
    /\ s.y \in 1..9999 /\ s.m \in 1..12
    /\ s.d \in 1..DaysInMonth(s.y, s.m)

\* datetime.strptime(s, fmt): ok is FALSE when it raises
strptime(s, fmt) ==
    IF s.k = fmt /\ ValidDate(s)
      THEN [ok |-> TRUE, v |-> Ordinal(s.y, s.m, s.d) * MinutesPerDay + s.t]
      ELSE [ok |-> FALSE, v |-> 0]

\* datetime.weekday(): Monday is 0
weekday(v) == ((v \div MinutesPerDay) + 6) % 7

\* faulty variant: no day is taken off the current test date
OneDay_not_subtracted == 0 * MinutesPerDay

\* timedelta(days=1)
OneDay == MinutesPerDay

DefaultMin == Ymd(2050, 12, 12)
DefaultMax == Ymd(2000, 1, 1)

\* parse_or_default(date_string, default)
parse_or_default(date_string, default) ==
    IF ~Truthy(date_string) \/ date_string = NoneText
      THEN strptime(default, "ymd")
      ELSE strptime(date_string, "ymd")

-----------------------------------------------------------------------------
(* scan_for_preferred_tests *)

\* return False, None, None; raised says an exception left the function
NotFound(looked, read) ==
    [found |-> FALSE, date |-> PyNone, el |-> 0, looked |-> looked, read |-> read,
     raised |-> FALSE]

\* faulty variant: the exception is not handled
Caught_reraises(looked, read) == [NotFound(looked, read) EXCEPT !.raised = TRUE]

\* except NoSuchElementException / except Exception: log, return not found
Caught(looked, read) == NotFound(looked, read)

\* faulty variant: the class of the cell is not looked at
Unavailable_ignored(day) == FALSE

\* "--unavailable" in (day.get_attribute("class") or "")
Unavailable(day) == day.unavailable

\* faulty variant: the before bound is not strict
DateQualifies_not_strict(s, v, min_date, max_date, unavailable_dates, formatted_test_date) ==
    /\ s \notin unavailable_dates
    /\ v <= min_date
    /\ v > max_date
    /\ weekday(v) < 5
    /\ s # formatted_test_date

\* the filter of lines 286-292
DateQualifies(s, v, min_date, max_date, unavailable_dates, formatted_test_date) ==
    /\ s \notin unavailable_dates
    /\ v < min_date
    /\ v > max_date
    /\ weekday(v) < 5
    /\ s # formatted_test_date

\* for day in days: ... ; looked and read collect the cells whose link was
\* looked up and whose data-date was read
RECURSIVE scan_days(_, _, _, _, _, _, _, _)
scan_days(days, i, min_date, max_date, unavailable_dates, formatted_test_date, looked, read) ==
    IF i > Len(days) THEN NotFound(looked, read)
    ELSE IF Unavailable(days[i])
      THEN scan_days(days, i + 1, min_date, max_date, unavailable_dates,
                     formatted_test_date, looked, read)
    ELSE IF ~days[i].has_link
      THEN \* NoSuchElementException: pass
           scan_days(days, i + 1, min_date, max_date, unavailable_dates,
                     formatted_test_date, looked \cup {i}, read)
    ELSE LET link_date_str == days[i].data_date
             link_date_dt == strptime(link_date_str, "ymd")
         IN  IF ~link_date_dt.ok
               THEN \* ValueError / TypeError: except Exception
                    Caught(looked \cup {i}, read \cup {i})
             ELSE IF DateQualifies(link_date_str, link_date_dt.v, min_date, max_date,
                                   unavailable_dates, formatted_test_date)
               THEN [found |-> TRUE, date |-> link_date_str, el |-> i,
                     looked |-> looked \cup {i}, read |-> read \cup {i},
                     raised |-> FALSE]
             ELSE scan_days(days, i + 1, min_date, max_date, unavailable_dates,
                            formatted_test_date, looked \cup {i}, read \cup {i})

\* a is the record of arguments, with the calendar the driver shows
scan_for_preferred_tests(a) ==
    LET cur == a.current_test_date
        dt_current_test == strptime(cur, "long")
        min0 == IF Truthy(cur) /\ cur.k = "yes" THEN strptime(DefaultMin, "ymd").v
                ELSE IF dt_current_test.ok THEN dt_current_test.v - OneDay
                ELSE strptime(DefaultMin, "ymd").v
        has_before == Truthy(a.before_date_str) /\ a.before_date_str # NoneText
        parsed_before == strptime(a.before_date_str, "ymd")
        min_date == IF has_before /\ parsed_before.v < min0 THEN parsed_before.v ELSE min0
        max_date == parse_or_default(a.after_date_str, DefaultMax)
    IN  IF has_before /\ ~parsed_before.ok THEN Caught({}, {})
        ELSE IF ~max_date.ok THEN Caught({}, {})
        ELSE IF ~a.calendar THEN Caught({}, {})
        ELSE scan_days(a.days, 1, min_date, max_date.v, a.unavailable_dates,
                       a.formatted_test_date, {}, {})

-----------------------------------------------------------------------------
(* Inputs of the scanner *)

\* cells of the calendar grid explored
MaxCells == 3

Cell(unavailable, has_link, data_date) ==
    [unavailable |-> unavailable, has_link |-> has_link, data_date |-> data_date]

CellKinds ==
    {Cell(FALSE, TRUE, Ymd(2025, 3, 10)),        \* a Monday
     Cell(FALSE, TRUE, Ymd(2025, 3, 15)),        \* a Saturday
     Cell(FALSE, TRUE, Ymd(2025, 3, 17)),        \* a Monday
     Cell(FALSE, TRUE, YmdLoose(2025, 3, 10)),   \* the first Monday, written 2025-3-10
     Cell(FALSE, TRUE, Garbage),                 \* data-date is no date
     Cell(FALSE, FALSE, PyNone),                 \* the cell has no link
     Cell(TRUE, TRUE, Ymd(2025, 3, 17)),         \* marked unavailable, dated
     Cell(TRUE, TRUE, PyNone)}                   \* marked unavailable, no data-date

RECURSIVE Grids(_)
Grids(n) ==
    IF n = 0 THEN {<<>>}
    ELSE LET shorter == Grids(n - 1)
         IN  shorter \cup {Append(g, c) : g \in {h \in shorter : Len(h) = n - 1},
                                          c \in CellKinds}

BeforeDates == {NoneText, Ymd(2025, 6, 1), Ymd(2025, 3, 17)}
AfterDates == {Empty, Ymd(2025, 1, 1), Ymd(2025, 3, 10)}
DisabledDates == {{}, {Ymd(2025, 3, 10)}}
CurrentTestDates == {YesText, Empty, Long(2025, 3, 18, 883)}
FormattedDates == {Empty, Ymd(2025, 3, 17)}

ScanArgs ==
    [before_date_str : BeforeDates, after_date_str : AfterDates,
     unavailable_dates : DisabledDates, current_test_date : CurrentTestDates,
     formatted_test_date : FormattedDates, calendar : {FALSE}, days : {<<>>}]

InitScan ==
    /\ mode = "scan" /\ pc = "sc_start"
    /\ page = BlankPage
    /\ status = "none" /\ solved = FALSE /\ loop_count = 0 /\ obs = Obs0
    /\ run = Run0 /\ bot = Bot0 /\ preferences = Prefs0 /\ browsers = {}
    /\ bk = Bk0
    /\ scanIn \in ScanArgs
    /\ scanOut = <<>> /\ mouse = <<>>

\* one call of scan_for_preferred_tests on the calendar the page shows
Scan ==
    /\ pc = "sc_start"
    /\ \E cal \in BOOLEAN :
         \E g \in (IF cal THEN Grids(MaxCells) ELSE {<<>>}) :
            /\ scanIn' = [scanIn EXCEPT !.calendar = cal, !.days = g]
            /\ scanOut' = scan_for_preferred_tests(scanIn')
    /\ pc' = "done"
    /\ UNCHANGED <<mode, page, queueVars, obs, runVars, bookVars, mouse>>

NextScan == Scan

SpecScan == InitScan /\ [][NextScan]_vars

\* arguments and stored values that are no dates
ScanFaultArgs ==
    [before_date_str : {NoneText, Garbage, Ymd(2025, 6, 1)},
     after_date_str : {Empty, Garbage},
     unavailable_dates : {{}},
     current_test_date : {YesText, Garbage, PyNone},
     formatted_test_date : {Empty}, calendar : {FALSE}, days : {<<>>}]

InitScanFaults ==
    /\ mode = "scan" /\ pc = "sc_start"
    /\ page = BlankPage
    /\ status = "none" /\ solved = FALSE /\ loop_count = 0 /\ obs = Obs0
    /\ run = Run0 /\ bot = Bot0 /\ preferences = Prefs0 /\ browsers = {}
    /\ bk = Bk0
    /\ scanIn \in ScanFaultArgs
    /\ scanOut = <<>> /\ mouse = <<>>

SpecScanFaults == InitScanFaults /\ [][NextScan]_vars

\* calls with a current test date in the long format, on and around the
\* dates of the cells
DatedCurrentTests ==
    {Long(2025, 3, 10, 883),      \* Monday 10 March 2025 2:43PM
     Long(2025, 3, 11, 0),        \* Tuesday 11 March 2025 12:00AM
     Long(2025, 3, 11, 883),
     Long(2025, 3, 17, 883)}

ScanCurrentArgs ==
    [before_date_str : BeforeDates, after_date_str : {Empty, Ymd(2025, 1, 1)},
     unavailable_dates : DisabledDates, current_test_date : DatedCurrentTests,
     formatted_test_date : {Empty}, calendar : {FALSE}, days : {<<>>}]

InitScanCurrent ==
    /\ mode = "scan" /\ pc = "sc_start"
    /\ page = BlankPage
    /\ status = "none" /\ solved = FALSE /\ loop_count = 0 /\ obs = Obs0
    /\ run = Run0 /\ bot = Bot0 /\ preferences = Prefs0 /\ browsers = {}
    /\ bk = Bk0
    /\ scanIn \in ScanCurrentArgs
    /\ scanOut = <<>> /\ mouse = <<>>

SpecScanCurrent == InitScanCurrent /\ [][NextScan]_vars

\* --- the claim's vocabulary, stated on dates ---

Monday0 == Ordinal(2025, 3, 10)

IsWeekday(v) == ((v \div MinutesPerDay) - Monday0) % 7 \in 0..4

Minimum(S) == CHOOSE x \in S : \A y \in S : x <= y

DateOf(s) == strptime(s, "ymd")

\* the cutoff derived from the current test date
C7_Cutoff(a) ==
    LET c == strptime(a.current_test_date, "long")
    IN  IF c.ok THEN c.v - OneDay ELSE DateOf(DefaultMin).v

C7_HasBefore(a) == a.before_date_str \notin {PyNone, Empty, NoneText}
C7_HasAfter(a) == a.after_date_str \notin {PyNone, Empty, NoneText}

C7_MinBound(a) ==
    IF C7_HasBefore(a) /\ DateOf(a.before_date_str).v < C7_Cutoff(a)
      THEN DateOf(a.before_date_str).v ELSE C7_Cutoff(a)

C7_MaxBound(a) ==
    IF C7_HasAfter(a) THEN DateOf(a.after_date_str).v ELSE DateOf(DefaultMax).v

\* the bounds are dates and the calendar is on the page
C7_WellFormed(a) ==
    /\ a.calendar
    /\ C7_HasBefore(a) => DateOf(a.before_date_str).ok
    /\ C7_HasAfter(a) => DateOf(a.after_date_str).ok

\* the date of cell i satisfies the five conditions, lo and hi being the
\* maximum (after) and minimum (before) bounds
C7_DateOk(a, i, lo, hi) ==
    LET s == a.days[i].data_date
        dt == DateOf(s)
    IN  /\ dt.ok
        /\ dt.v < hi
        /\ dt.v > lo
        /\ s \notin a.unavailable_dates
        /\ IsWeekday(dt.v)
        /\ s # a.formatted_test_date

C7_Returns(a, out, i) ==
    out.found /\ out.el = i /\ out.date = a.days[i].data_date

\* C7 as stated: the first cell in document order whose date satisfies the
\* five conditions is returned (and not-found when there is none).
C7_FirstQualifyingCell ==
    mode = "scan" /\ pc = "done" /\ C7_WellFormed(scanIn) =>
        LET lo == C7_MaxBound(scanIn)
            hi == C7_MinBound(scanIn)
            Q == {i \in 1..Len(scanIn.days) : C7_DateOk(scanIn, i, lo, hi)}
        IN  IF Q = {} THEN ~scanOut.found
            ELSE C7_Returns(scanIn, scanOut, Minimum(Q))

\* cells the scanner examines: not marked unavailable, with a link
C7_Examined(a, i) == ~a.days[i].unavailable /\ a.days[i].has_link

\* C7 amended: among the cells that are not marked unavailable and have a
\* link, the first whose date satisfies the five conditions is returned,
\* unless an earlier such cell has a missing or unparseable date, in which
\* case (and when no cell qualifies) the result is not-found.
C7_FirstQualifyingExaminedCell ==
    mode = "scan" /\ pc = "done" /\ C7_WellFormed(scanIn) =>
        LET lo == C7_MaxBound(scanIn)
            hi == C7_MinBound(scanIn)
            E == {i \in 1..Len(scanIn.days) : C7_Examined(scanIn, i)}
            Q == {i \in E : C7_DateOk(scanIn, i, lo, hi)}
            B == {i \in E : ~DateOf(scanIn.days[i].data_date).ok}
        IN  IF Q = {} \/ (B # {} /\ Minimum(B) < Minimum(Q))
              THEN ~scanOut.found /\ scanOut.el = 0
              ELSE C7_Returns(scanIn, scanOut, Minimum(Q))

\* the end-to-end scenario of the specification
C7_Witness ==
    /\ mode = "scan" /\ pc = "done"
    /\ scanIn.before_date_str = Ymd(2025, 6, 1)
    /\ scanIn.after_date_str = Ymd(2025, 1, 1)
    /\ scanIn.unavailable_dates = {Ymd(2025, 3, 10)}
    /\ scanIn.current_test_date = YesText
    /\ scanIn.days = << Cell(FALSE, TRUE, Ymd(2025, 3, 10)),
                        Cell(FALSE, TRUE, Ymd(2025, 3, 15)),
                        Cell(FALSE, TRUE, Ymd(2025, 3, 17)) >>
    /\ scanOut.found /\ scanOut.date = Ymd(2025, 3, 17) /\ scanOut.el = 3

\* the cells of the grid that are not marked unavailable, in document order
C21_Available(days) == SelectSeq(days, LAMBDA c : ~c.unavailable)

\* C21: no cell marked unavailable has its link looked up or its date read,
\* so the scan of a grid gives the result (found or not, and which date) of
\* the scan of the same grid without its unavailable cells, without raising.
C21_UnavailableNeverInspected ==
    mode = "scan" /\ pc = "done" /\ scanIn.calendar =>
        LET plain == scan_for_preferred_tests(
                        [scanIn EXCEPT !.days = C21_Available(scanIn.days)])
        IN  /\ \A i \in 1..Len(scanIn.days) :
                  scanIn.days[i].unavailable =>
                      i \notin scanOut.looked /\ i \notin scanOut.read
            /\ scanOut.found = plain.found /\ scanOut.date = plain.date
            /\ ~scanOut.raised

\* an unavailable cell without data-date comes first and the qualifying
\* cell behind it is returned
C21_Witness ==
    /\ mode = "scan" /\ pc = "done"
    /\ scanIn.days = << Cell(TRUE, TRUE, PyNone), Cell(FALSE, TRUE, Ymd(2025, 3, 17)) >>
    /\ scanOut.found /\ scanOut.el = 2 /\ scanOut.date = Ymd(2025, 3, 17)
    /\ scanOut.looked = {2} /\ scanOut.read = {2}

\* a bound that is given and is no date
C22_BadBound(a) ==
    \/ a.before_date_str \notin {PyNone, Empty, NoneText} /\ ~DateOf(a.before_date_str).ok
    \/ a.after_date_str \notin {PyNone, Empty, NoneText} /\ ~DateOf(a.after_date_str).ok

-----------------------------------------------------------------------------
(* run_reschedule_flow, DVSABot.login, DVSABot.search_and_book *)

MAX_ATTEMPTS == 4
DVSA_OPEN_TIME == 6 * 60 + 5          \* dtime(6, 5), in minutes
DVSA_CLOSE_TIME == 23 * 60 + 35       \* dtime(23, 35)

\* readings of the clock
Times == {DVSA_OPEN_TIME - 1, DVSA_OPEN_TIME, 12 * 60, DVSA_CLOSE_TIME, DVSA_CLOSE_TIME + 1}

\* faulty variant: the two ends of the interval are excluded
is_time_between_exclusive(begin_time, end_time, check_time) ==
    IF begin_time < end_time
      THEN begin_time < check_time /\ check_time < end_time
      ELSE check_time > begin_time \/ check_time < end_time

is_time_between(begin_time, end_time, check_time) ==
    IF begin_time < end_time
      THEN begin_time <= check_time /\ check_time <= end_time
      ELSE check_time >= begin_time \/ check_time <= end_time

\* faulty variant: the loop admits one attempt too many
MoreAttempts_one_too_many(n) == n <= MAX_ATTEMPTS

\* for attempt in range(MAX_ATTEMPTS)
MoreAttempts(n) == n < MAX_ATTEMPTS

\* the preferences a run is started with
RunPrefs ==
    {[center |-> c, current_test_date |-> d, auto_book_test |-> a,
      before_date |-> NoneText, after_date |-> Empty, disabled_dates |-> {}] :
        <<c, d, a>> \in {<< <<"A", "B">>, YesText, TRUE >>,
                         << <<"A", "B">>, Long(2025, 3, 18, 883), FALSE >>,
                         << <<>>, Long(2025, 3, 18, 883), FALSE >>}}

FORMATTED_CURRENT_TEST_DATE == Empty

\* module global, read from the configuration the preferences come from
AUTO_BOOK_TEST == preferences.auto_book_test

\* what the calendar shows during a run
RunGrids == {<<>>, <<Cell(FALSE, TRUE, Ymd(2025, 3, 17))>>}

InitRun ==
    /\ mode \in {"reschedule", "booking"}
    /\ pc = IF mode = "reschedule" THEN "r_loop" ELSE "i_loop"
    /\ page = BlankPage
    /\ status = "none" /\ solved = FALSE /\ loop_count = 0 /\ obs = Obs0
    /\ preferences \in RunPrefs
    /\ run = [Run0 EXCEPT !.loaded = preferences]   \* parse_config(CONFIG), as loaded
    /\ bot = Bot0 /\ browsers = {}
    /\ bk = Bk0 /\ scanIn = <<>> /\ scanOut = <<>> /\ mouse = <<>>

\* top of the for loop: is_time_between(DVSA_OPEN_TIME, DVSA_CLOSE_TIME)
R_Loop ==
    /\ pc = "r_loop"
    /\ MoreAttempts(run.attempt)
    /\ obs' = [Obs0 EXCEPT !.loginFinal = obs.loginFinal]
    /\ \E now \in Times :
          LET open == is_time_between(DVSA_OPEN_TIME, DVSA_CLOSE_TIME, now)
          IN  /\ run' = [run EXCEPT !.started = @ + 1, !.now = now,
                                    !.inHours = @ \/ open]
              /\ pc' = IF open THEN "r_bot" ELSE "r_closed"
    /\ UNCHANGED <<mode, page, queueVars, bot, preferences, browsers, bookVars, scanVars>>

\* range(MAX_ATTEMPTS) is exhausted: the function returns
R_Return ==
    /\ pc = "r_loop"
    /\ ~MoreAttempts(run.attempt)
    /\ pc' = "returned"
    /\ UNCHANGED <<mode, page, queueVars, obs, runVars, bookVars, scanVars>>

\* outside operating hours: random_sleep(10, 5)
R_Closed ==
    /\ pc = "r_closed"
    /\ pc' = "r_next"
    /\ run' = [run EXCEPT !.now = NoReading]
    /\ UNCHANGED <<mode, page, queueVars, obs, bot, preferences, browsers, bookVars, scanVars>>

\* faulty variant: the new session takes over the index of the previous one
R_Bot_keeps_index ==
    /\ pc = "r_bot"
    /\ bot' = [driver |-> 0, active |-> FALSE,
               current_centre_index |-> bot.current_centre_index]
    /\ obs' = Obs0
    /\ run' = [run EXCEPT !.now = NoReading]
    /\ pc' = "l_setup"
    /\ UNCHANGED <<mode, page, queueVars, preferences, browsers, bookVars, scanVars>>

\* bot = DVSABot(config_data)
R_Bot ==
    /\ pc = "r_bot"
    /\ bot' = [driver |-> 0, active |-> FALSE, current_centre_index |-> 0]
    /\ obs' = Obs0
    /\ run' = [run EXCEPT !.now = NoReading]
    /\ pc' = "l_setup"
    /\ UNCHANGED <<mode, page, queueVars, preferences, browsers, bookVars, scanVars>>

\* login: if not self.driver: self.setup_driver()
L_Setup ==
    /\ pc = "l_setup"
    /\ \E started \in BOOLEAN :
          IF started
            THEN /\ bot' = [bot EXCEPT !.driver = run.started]
                 /\ browsers' = browsers \cup {run.started}
                 /\ pc' = "l_get"
                 /\ UNCHANGED obs
            ELSE \* uc.Chrome(...) raises
                 /\ obs' = [obs EXCEPT !.caught = TRUE]
                 /\ pc' = "r_except"
                 /\ UNCHANGED <<bot, browsers>>
    /\ UNCHANGED <<mode, page, queueVars, run, preferences, bookVars, scanVars>>

\* self.driver.get(DVSA_QUEUE_URL); self.handle_queue_and_firewall()
L_Get ==
    /\ pc = "l_get"
    /\ \E p \in FlowPages : page' = p
    /\ obs' = Touch(obs)
    /\ loop_count' = 0
    /\ pc' = "q_check"
    /\ UNCHANGED <<mode, status, solved, runVars, bookVars, scanVars>>

\* self.enter_reschedule_credentials(manual=False)
L_Creds ==
    /\ pc = "l_creds"
    /\ \E p \in FlowPages : page' = p
    /\ obs' = [Touch(NewCall(obs)) EXCEPT !.creds = TRUE]
    /\ status' = "none" /\ solved' = FALSE /\ loop_count' = 0
    /\ pc' = "l_step3"
    /\ UNCHANGED <<mode, runVars, bookVars, scanVars>>

\* Step 3: check firewall again; on firewall solve_captcha, re-check, refresh
L_Step3 ==
    /\ pc = "l_step3"
    /\ \E p \in FlowPages, p2 \in FlowPages, exc \in BOOLEAN :
          LET st == check_firewall_and_queue(page)
              r == solve_captcha(page, SOLVE_MANUALLY, exc)
              st2 == check_firewall_and_queue(p)
              o1 == Seen(obs, st)
              o2 == [o1 EXCEPT !.nCaptcha = @ + 1]
              o3 == IF r.click THEN Touch(o2) ELSE o2
              o4 == IF ~r.solved THEN Unresolved(o3)
                    ELSE IF st2 = "firewall" THEN Unresolved(Seen(o3, st2))
                    ELSE Seen(o3, st2)
          IN  IF st = "firewall"
                THEN /\ solved' = r.solved
                     /\ status' = IF r.solved THEN st2 ELSE st
                     /\ obs' = Touch(o4)
                     /\ page' = p2
                ELSE /\ status' = st
                     /\ obs' = o1
                     /\ UNCHANGED <<solved, page>>
    /\ pc' = "l_urlcheck"
    /\ UNCHANGED <<mode, loop_count, runVars, bookVars, scanVars>>

\* faulty variant: the return after "Marking inactive" is missing
L_UrlCheck_no_return ==
    /\ pc = "l_urlcheck"
    /\ \E loginError \in BOOLEAN :
          IF loginError
            THEN /\ bot' = [bot EXCEPT !.active = FALSE]
                 /\ obs' = [obs EXCEPT !.loginFail = "bad_credentials"]
                 /\ pc' = "l_summary"
            ELSE /\ pc' = "l_summary"
                 /\ UNCHANGED <<bot, obs>>
    /\ UNCHANGED <<mode, page, queueVars, run, preferences, browsers, bookVars, scanVars>>

\* if "loginError=true" in self.driver.current_url: self.active = False; return
L_UrlCheck ==
    /\ pc = "l_urlcheck"
    /\ \E loginError \in BOOLEAN :
          IF loginError
            THEN /\ bot' = [bot EXCEPT !.active = FALSE]
                 /\ obs' = [obs EXCEPT !.loginFail = "bad_credentials"]
                 /\ pc' = "r_logged"
            ELSE /\ pc' = "l_summary"
                 /\ UNCHANGED <<bot, obs>>
    /\ UNCHANGED <<mode, page, queueVars, run, preferences, browsers, bookVars, scanVars>>

\* Step 4 up to the final classification (inside the try)
L_Summary ==
    /\ pc = "l_summary"
    /\ \E r \in {"exc", "cancelled", "ok"}, test_center_temp \in {"", "T"},
          touched \in BOOLEAN, p \in FlowPages :
          CASE r = "exc" ->
                 \* except Exception: self.active = False
                 /\ bot' = [bot EXCEPT !.active = FALSE]
                 /\ obs' = IF touched THEN Touch(obs) ELSE obs
                 /\ page' = IF touched THEN p ELSE page
                 /\ pc' = "r_logged"
                 /\ UNCHANGED preferences
            [] r = "cancelled" ->
                 /\ bot' = [bot EXCEPT !.active = FALSE]
                 /\ obs' = [obs EXCEPT !.loginFail = "cancelled"]
                 /\ pc' = "r_logged"
                 /\ UNCHANGED <<page, preferences>>
            [] r = "ok" ->
                 /\ preferences' =
                       IF preferences.current_test_date.k = "yes" /\ test_center_temp # ""
                         THEN [preferences EXCEPT !.center = <<test_center_temp>>]
                         ELSE preferences
                 /\ obs' = Touch(obs)
                 /\ page' = p
                 /\ pc' = "l_final"
                 /\ UNCHANGED bot
    /\ UNCHANGED <<mode, queueVars, run, browsers, bookVars, scanVars>>

\* faulty variant: the session is active unless login ended on the login page
L_Final_active_unless_login_page ==
    /\ pc = "l_final"
    /\ \E raised \in BOOLEAN :
          IF raised
            THEN /\ bot' = [bot EXCEPT !.active = FALSE]
                 /\ UNCHANGED <<status, obs>>
            ELSE /\ status' = check_firewall_and_queue(page)
                 /\ obs' = [Seen(obs, status') EXCEPT !.loginFinal = status']
                 /\ bot' = [bot EXCEPT !.active = status' # "login_required"]
    /\ pc' = "r_logged"
    /\ UNCHANGED <<mode, page, solved, loop_count, run, preferences, browsers,
                   bookVars, scanVars>>

\* final_status = check_firewall_and_queue(self.driver); self.active = ...
L_Final ==
    /\ pc = "l_final"
    /\ \E raised \in BOOLEAN :
          IF raised
            THEN /\ bot' = [bot EXCEPT !.active = FALSE]
                 /\ UNCHANGED <<status, obs>>
            ELSE /\ status' = check_firewall_and_queue(page)
                 /\ obs' = [Seen(obs, status') EXCEPT !.loginFinal = status']
                 /\ bot' = [bot EXCEPT !.active =
                               status' \notin {"firewall", "queue", "error", "login_required"}]
    /\ pc' = "r_logged"
    /\ UNCHANGED <<mode, page, solved, loop_count, run, preferences, browsers,
                   bookVars, scanVars>>

\* a driver call of login outside the try raises
L_Raise ==
    /\ pc \in {"l_get", "l_creds", "l_step3", "l_urlcheck"}
    /\ obs' = [obs EXCEPT !.caught = TRUE]
    /\ pc' = "r_except"
    /\ UNCHANGED <<mode, page, queueVars, runVars, bookVars, scanVars>>

Login == L_Setup \/ L_Get \/ L_Creds \/ L_Step3 \/ L_UrlCheck \/ L_Summary
         \/ L_Final \/ L_Raise


\* if bot.active: bot.search_and_book()
R_Logged ==
    /\ pc = "r_logged"
    /\ pc' = IF bot.active THEN "s_start" ELSE "r_sleep"
    /\ UNCHANGED <<mode, page, queueVars, obs, runVars, bookVars, scanVars>>

\* faulty variant: the index advances without wrapping
S_Start_no_wrap ==
    /\ pc = "s_start"
    /\ IF ~bot.active \/ preferences.center = <<>>
         THEN /\ pc' = "r_sleep"
              /\ UNCHANGED <<bot, obs>>
         ELSE /\ bot' = [bot EXCEPT !.current_centre_index = @ + 1]
              /\ obs' = [NewCall(obs) EXCEPT
                           !.centre = preferences.center[bot.current_centre_index + 1]]
              /\ pc' = "s_change"
    /\ UNCHANGED <<mode, page, queueVars, run, preferences, browsers, bookVars, scanVars>>

\* search_and_book up to the choice of the centre to search
S_Start ==
    /\ pc = "s_start"
    /\ IF ~bot.active \/ preferences.center = <<>>
         THEN /\ pc' = "r_sleep"
              /\ UNCHANGED <<bot, obs>>
         ELSE /\ bot' = [bot EXCEPT !.current_centre_index =
                              (@ + 1) % Len(preferences.center)]
              /\ obs' = [NewCall(obs) EXCEPT
                           !.centre = preferences.center[bot.current_centre_index + 1]]
              /\ pc' = "s_change"
    /\ UNCHANGED <<mode, page, queueVars, run, preferences, browsers, bookVars, scanVars>>

\* the first try block: change the test centre
S_Change ==
    /\ pc = "s_change"
    /\ \E r \in Outcomes, touched \in BOOLEAN, p \in FlowPages :
          CASE r = "ok" ->
                 /\ obs' = Touch(obs)
                 /\ page' = p
                 /\ pc' = "s_avail"
                 /\ UNCHANGED <<status, bot>>
            [] r = "nosuch" ->
                 \* except NoSuchElementException: classify, mark inactive, return
                 /\ page' = IF touched THEN p ELSE page
                 /\ status' = check_firewall_and_queue(page')
                 /\ obs' = Seen(IF touched THEN Touch(obs) ELSE obs, status')
                 /\ bot' = [bot EXCEPT !.active =
                              @ /\ status' \notin {"error", "queue", "firewall", "login_required"}]
                 /\ pc' = "r_sleep"
            [] r = "exc" ->
                 \* except Exception: self.active = False; return
                 /\ page' = IF touched THEN p ELSE page
                 /\ obs' = IF touched THEN Touch(obs) ELSE obs
                 /\ bot' = [bot EXCEPT !.active = FALSE]
                 /\ pc' = "r_sleep"
                 /\ UNCHANGED status
    /\ UNCHANGED <<mode, solved, loop_count, run, preferences, browsers, bookVars, scanVars>>

\* "there are no tests available", then the status must be ok
S_Avail ==
    /\ pc = "s_avail"
    /\ \E none_available \in BOOLEAN :
          IF ~bot.active \/ none_available
            THEN /\ pc' = "r_sleep"
                 /\ UNCHANGED <<status, obs, bot>>
            ELSE /\ status' = check_firewall_and_queue(page)
                 /\ obs' = Seen(obs, status')
                 /\ bot' = [bot EXCEPT !.active = status' = "ok"]
                 /\ pc' = IF status' = "ok" THEN "s_scan" ELSE "r_sleep"
    /\ UNCHANGED <<mode, page, solved, loop_count, run, preferences, browsers,
                   bookVars, scanVars>>

\* found, found_date_str, date_el = scan_for_preferred_tests(...)
S_Scan ==
    /\ pc = "s_scan"
    /\ \E cal \in BOOLEAN :
         \E g \in (IF cal THEN RunGrids ELSE {<<>>}) :
            /\ scanIn' = [before_date_str |-> preferences.before_date,
                          after_date_str |-> preferences.after_date,
                          unavailable_dates |-> preferences.disabled_dates,
                          current_test_date |-> preferences.current_test_date,
                          formatted_test_date |-> FORMATTED_CURRENT_TEST_DATE,
                          calendar |-> cal, days |-> g]
            /\ scanOut' = scan_for_preferred_tests(scanIn')
    /\ pc' = IF scanOut'.found THEN "s_select" ELSE "r_sleep"
    /\ UNCHANGED <<mode, page, queueVars, obs, runVars, bookVars, mouse>>

\* the outcomes of text.send_text: it returns, or the provider raises
SmsOutcomes == {"sent", "failed"}

\* send_text_available: the exception of text.send_text is logged, not raised
send_text_available(o, r) ==
    [o EXCEPT !.smsAvail = r, !.smsLost = @ \/ r = "failed"]

\* send_text_test_found: short_str carries the flag; the exception is logged
send_text_test_found(o, short_notice, r) ==
    [o EXCEPT !.smsFound = r, !.smsLost = @ \/ r = "failed",
              !.smsFlag = IF short_notice THEN "Short Notice" ELSE "Standard"]

\* the second try block up to the slot read: navigate the calendar, click
\* the date, read the slot time and data-short-notice
S_Select ==
    /\ pc = "s_select"
    /\ \E ok \in BOOLEAN, sn \in BOOLEAN, p \in FlowPages :
          IF ok
            THEN /\ bk' = [Bk0 EXCEPT !.short_notice = sn]
                 /\ obs' = Touch(obs)
                 /\ page' = p
                 /\ pc' = "s_notify"
            ELSE /\ pc' = "s_failed"
                 /\ UNCHANGED <<bk, obs, page>>
    /\ UNCHANGED <<mode, queueVars, runVars, scanVars>>

\* faulty variant: an exception of the provider reaches the except clause
S_Notify_sms_failure_aborts ==
    /\ pc = "s_notify"
    /\ \E a \in SmsOutcomes, f \in SmsOutcomes :
          /\ obs' = send_text_test_found(send_text_available(obs, a), bk.short_notice, f)
          /\ pc' = IF a = "failed" \/ f = "failed" THEN "s_failed" ELSE "s_submit"
    /\ UNCHANGED <<mode, page, queueVars, runVars, bookVars, scanVars>>

\* send_text_available(...); send_text_test_found(..., short_notice)
S_Notify ==
    /\ pc = "s_notify"
    /\ \E a \in SmsOutcomes, f \in SmsOutcomes :
          obs' = send_text_test_found(send_text_available(obs, a), bk.short_notice, f)
    /\ pc' = "s_submit"
    /\ UNCHANGED <<mode, page, queueVars, runVars, bookVars, scanVars>>

\* label.click(), slot-chosen-submit, slot-warning-continue, then the call
\* of book_test_flow, which does not read its short_notice argument
S_Submit ==
    /\ pc = "s_submit"
    /\ \E ok \in BOOLEAN, p \in FlowPages :
          IF ok
            THEN /\ bk' = [Bk0 EXCEPT !.auto_book_test = AUTO_BOOK_TEST,
                                      !.skip = SOLVE_MANUALLY]
                 /\ obs' = [NewCall(Touch(obs)) EXCEPT !.centre = obs.centre,
                                                       !.smsLost = obs.smsLost]
                 /\ page' = p
                 /\ pc' = "b_loop"
            ELSE /\ pc' = "s_failed"
                 /\ UNCHANGED <<bk, obs, page>>
    /\ UNCHANGED <<mode, queueVars, runVars, scanVars>>

\* success = book_test_flow(...): log the result
S_Booked ==
    /\ pc = "s_booked"
    /\ pc' = "r_sleep"
    /\ UNCHANGED <<mode, page, queueVars, obs, runVars, bookVars, scanVars>>

\* except Exception: capture_screenshot(driver, label="booking_flow"); return
S_Failed ==
    /\ pc = "s_failed"
    /\ pc' = "r_sleep"
    /\ UNCHANGED <<mode, page, queueVars, obs, runVars, bookVars, scanVars>>

\* an exception leaves search_and_book: raised inside an except clause
\* (the classification, the screenshot) or by driver.page_source
S_Raise ==
    /\ pc \in {"s_change", "s_avail", "s_failed"}
    /\ obs' = [obs EXCEPT !.caught = TRUE]
    /\ pc' = "r_except"
    /\ UNCHANGED <<mode, page, queueVars, runVars, bookVars, scanVars>>

Search == S_Start \/ S_Change \/ S_Avail \/ S_Scan \/ S_Select \/ S_Notify
          \/ S_Submit \/ S_Booked
          \/ S_Failed \/ S_Raise

\* random_sleep(DVSA_DELAY, 10): the attempt ends normally
R_Sleep ==
    /\ pc = "r_sleep"
    /\ pc' = "r_next"
    /\ bk' = Bk0 /\ scanIn' = <<>> /\ scanOut' = <<>> /\ UNCHANGED mouse
    /\ status' = "none" /\ solved' = FALSE
    /\ page' = BlankPage
    /\ UNCHANGED <<mode, loop_count, obs, runVars>>

\* except Exception: screenshot when there is a driver, quit, time.sleep(30)
R_Except ==
    /\ pc = "r_except"
    /\ obs' = [obs EXCEPT !.shot = bot.driver # 0, !.backoff = 30]
    /\ browsers' = browsers \ {bot.driver}
    /\ bk' = Bk0 /\ scanIn' = <<>> /\ scanOut' = <<>> /\ UNCHANGED mouse
    /\ status' = "none" /\ solved' = FALSE /\ loop_count' = 0
    /\ page' = BlankPage
    /\ pc' = "r_next"
    /\ UNCHANGED <<mode, run, bot, preferences>>

\* capture_screenshot raises something that is no WebDriverException: the
\* exception leaves the handler and run_reschedule_flow
R_ExceptEscapes ==
    /\ pc = "r_except"
    /\ bot.driver # 0
    /\ obs' = [obs EXCEPT !.shot = TRUE]
    /\ pc' = "raised"
    /\ UNCHANGED <<mode, page, queueVars, runVars, bookVars, scanVars>>

\* end of the loop body: the next value of attempt
R_Next ==
    /\ pc = "r_next"
    /\ run' = [run EXCEPT !.attempt = @ + 1]
    /\ pc' = "r_loop"
    /\ UNCHANGED <<mode, page, queueVars, obs, bot, preferences, browsers, bookVars, scanVars>>

Reschedule ==
    \/ R_Loop \/ R_Return \/ R_Closed \/ R_Bot \/ R_Logged \/ R_Sleep
    \/ R_Except \/ R_ExceptEscapes \/ R_Next

-----------------------------------------------------------------------------
(* run_initial_booking_flow *)

captcha_rounds == 5

\* top of the for loop; driver = None
I_Loop ==
    /\ pc = "i_loop"
    /\ MoreAttempts(run.attempt)
    /\ bot' = Bot0
    /\ obs' = Obs0
    /\ \E now \in Times :
          LET open == is_time_between(DVSA_OPEN_TIME, DVSA_CLOSE_TIME, now)
          IN  /\ run' = [run EXCEPT !.started = @ + 1, !.k = 0, !.after = "none",
                                    !.now = now, !.inHours = @ \/ open]
              /\ pc' = IF open THEN "i_setup" ELSE "i_closed"
    /\ UNCHANGED <<mode, page, queueVars, preferences, browsers, bookVars, scanVars>>

I_Return ==
    /\ pc = "i_loop"
    /\ ~MoreAttempts(run.attempt)
    /\ pc' = "returned"
    /\ UNCHANGED <<mode, page, queueVars, obs, runVars, bookVars, scanVars>>

\* outside operating hours: random_sleep(10, 5)
I_Closed ==
    /\ pc = "i_closed"
    /\ pc' = "i_next"
    /\ run' = [run EXCEPT !.now = NoReading]
    /\ UNCHANGED <<mode, page, queueVars, obs, bot, preferences, browsers, bookVars, scanVars>>

\* driver = uc.Chrome(...); driver.get(DVSA_APPLICATION_URL)
I_Setup ==
    /\ pc = "i_setup"
    /\ \E started \in BOOLEAN, p \in FlowPages :
          IF started
            THEN /\ bot' = [bot EXCEPT !.driver = run.started]
                 /\ browsers' = browsers \cup {run.started}
                 /\ page' = p
                 /\ obs' = Touch(obs)
                 /\ pc' = "i_captcha"
            ELSE /\ obs' = [obs EXCEPT !.caught = TRUE]
                 /\ pc' = "i_except"
                 /\ UNCHANGED <<bot, browsers, page>>
    /\ run' = [run EXCEPT !.now = NoReading]
    /\ UNCHANGED <<mode, queueVars, preferences, bookVars, scanVars>>

\* one round of `for _ in range(5)`: classify, solve or refresh
I_Captcha ==
    /\ pc = "i_captcha"
    /\ IF run.k < captcha_rounds
         THEN \E p \in FlowPages, exc \in BOOLEAN :
                LET st == check_firewall_and_queue(page)
                    r == solve_captcha(page, SOLVE_MANUALLY, exc)
                    o1 == Seen(obs, st)
                    o2 == [o1 EXCEPT !.nCaptcha = @ + 1]
                    o3 == IF r.click THEN Touch(o2) ELSE o2
                IN  /\ status' = st
                    /\ CASE st \in {"queue", "firewall"} /\ r.solved ->
                              /\ solved' = TRUE /\ obs' = Believed(o3, TRUE) /\ page' = p
                              /\ pc' = "i_form" /\ UNCHANGED run
                         [] st \in {"queue", "firewall"} /\ ~r.solved ->
                              /\ solved' = FALSE /\ obs' = Touch(o3) /\ page' = p
                              /\ run' = [run EXCEPT !.k = @ + 1]
                              /\ pc' = "i_captcha"
                         [] st \in {"ok", "login_required"} ->
                              /\ obs' = o1 /\ pc' = "i_form"
                              /\ UNCHANGED <<solved, page, run>>
                         [] st = "error" ->
                              /\ obs' = Touch(o1) /\ page' = p
                              /\ run' = [run EXCEPT !.k = @ + 1]
                              /\ pc' = "i_captcha"
                              /\ UNCHANGED solved
         ELSE /\ pc' = "i_form"
              /\ UNCHANGED <<status, solved, obs, page, run>>
    /\ UNCHANGED <<mode, loop_count, bot, preferences, browsers, bookVars, scanVars>>

\* Steps 1-9: the form up to the test centre link
I_Form ==
    /\ pc = "i_form"
    /\ \E ok \in BOOLEAN, p \in FlowPages :
          /\ page' = p
          /\ obs' = IF ok THEN Touch(obs) ELSE [obs EXCEPT !.caught = TRUE]
          /\ pc' = IF ok THEN "i_calendar" ELSE "i_except"
    /\ UNCHANGED <<mode, queueVars, runVars, bookVars, scanVars>>

\* Step 10: click the first bookable date, or screenshot and return
I_Calendar ==
    /\ pc = "i_calendar"
    /\ \E ok \in BOOLEAN, p \in FlowPages :
          IF ok
            THEN /\ page' = p
                 /\ obs' = Touch(obs)
                 /\ pc' = "i_done"
                 /\ UNCHANGED run
            ELSE \* no bookable date, or an exception: capture_screenshot; return
                 /\ run' = [run EXCEPT !.after = "return"]
                 /\ pc' = "i_finally"
                 /\ UNCHANGED <<page, obs>>
    /\ UNCHANGED <<mode, queueVars, bot, preferences, browsers, bookVars, scanVars>>

\* random_sleep(DVSA_DELAY, 10); break
I_Done ==
    /\ pc = "i_done"
    /\ run' = [run EXCEPT !.after = "break"]
    /\ pc' = "i_finally"
    /\ UNCHANGED <<mode, page, queueVars, obs, bot, preferences, browsers, bookVars, scanVars>>

\* a driver call outside the inner try raises, or the screenshot of step 10 does
I_Raise ==
    /\ pc \in {"i_captcha", "i_calendar"}
    /\ obs' = [obs EXCEPT !.caught = TRUE]
    /\ pc' = "i_except"
    /\ UNCHANGED <<mode, page, queueVars, runVars, bookVars, scanVars>>

\* except Exception: screenshot when there is a driver; time.sleep(5)
I_Except ==
    /\ pc = "i_except"
    /\ obs' = [obs EXCEPT !.shot = bot.driver # 0, !.backoff = 5]
    /\ run' = [run EXCEPT !.after = "next"]
    /\ pc' = "i_finally"
    /\ UNCHANGED <<mode, page, queueVars, bot, preferences, browsers, bookVars, scanVars>>

\* capture_screenshot raises something that is no WebDriverException
I_ExceptEscapes ==
    /\ pc = "i_except"
    /\ bot.driver # 0
    /\ obs' = [obs EXCEPT !.shot = TRUE]
    /\ run' = [run EXCEPT !.after = "raise"]
    /\ pc' = "i_finally"
    /\ UNCHANGED <<mode, page, queueVars, bot, preferences, browsers, bookVars, scanVars>>

\* finally: if driver: driver.quit()
I_Finally ==
    /\ pc = "i_finally"
    /\ browsers' = browsers \ {bot.driver}
    /\ pc' = CASE run.after = "next" -> "i_next"
               [] run.after = "raise" -> "raised"
               [] OTHER -> "returned"
    /\ status' = "none" /\ solved' = FALSE
    /\ UNCHANGED <<mode, page, loop_count, obs, run, bot, preferences, bookVars, scanVars>>

I_Next ==
    /\ pc = "i_next"
    /\ run' = [run EXCEPT !.attempt = @ + 1]
    /\ pc' = "i_loop"
    /\ UNCHANGED <<mode, page, queueVars, obs, bot, preferences, browsers, bookVars, scanVars>>

InitialBooking ==
    \/ I_Loop \/ I_Return \/ I_Closed \/ I_Setup \/ I_Captcha \/ I_Form
    \/ I_Calendar \/ I_Done \/ I_Raise \/ I_Except \/ I_ExceptEscapes
    \/ I_Finally \/ I_Next

NextRun == Reschedule \/ Login \/ HQF \/ Search \/ Book \/ InitialBooking

SpecRun == InitRun /\ [][NextRun]_vars


-----------------------------------------------------------------------------
(* search_and_book called repeatedly on one session *)

\* calls of search_and_book made on the session
MaxCalls == 3

RotatePrefs ==
    {[center |-> c, current_test_date |-> YesText, auto_book_test |-> a,
      before_date |-> NoneText, after_date |-> Empty, disabled_dates |-> {}] :
        c \in {<<>>, <<"A">>, <<"A", "B">>}, a \in BOOLEAN}

\* a session after login, active or not, before its first search
InitRotate ==
    /\ mode = "reschedule" /\ pc = "s_start"
    /\ page = BlankPage
    /\ status = "none" /\ solved = FALSE /\ loop_count = 0
    /\ preferences \in RotatePrefs
    /\ run = [Run0 EXCEPT !.loaded = preferences, !.started = 1]
    /\ \E a \in BOOLEAN :
          /\ bot = [Bot0 EXCEPT !.driver = 1, !.active = a]
          /\ obs = [Obs0 EXCEPT !.loginFinal = IF a THEN "ok" ELSE "error"]
    /\ browsers = {1}
    /\ bk = Bk0 /\ scanIn = <<>> /\ scanOut = <<>> /\ mouse = <<>>

\* search_and_book has returned: the caller calls it again on the session
T_Again ==
    /\ pc = "r_sleep"
    /\ run.started < MaxCalls
    /\ run' = [run EXCEPT !.started = @ + 1]
    /\ bk' = Bk0 /\ scanIn' = <<>> /\ scanOut' = <<>>
    /\ pc' = "s_start"
    /\ UNCHANGED <<mode, page, queueVars, obs, bot, preferences, browsers, mouse>>

NextRotate == Search \/ Book \/ T_Again

SpecRotate == InitRotate /\ [][NextRotate]_vars

\* C27: a call of search_and_book on an active session with a non-empty
\* centre list searches the centre at the current index and advances the
\* index by one modulo the number of centres; with an inactive session or an
\* empty list, and in every other step, the index is unchanged; the index is
\* always a position of the list.
C27_IndexRotates ==
    /\ [](preferences.center # <<>> =>
             bot.current_centre_index \in 0..(Len(preferences.center) - 1))
    /\ [](preferences.center = <<>> => bot.current_centre_index = 0)
    /\ [][pc = "s_start" /\ bot.active /\ preferences.center # <<>> =>
             /\ obs'.centre = preferences.center[bot.current_centre_index + 1]
             /\ bot'.current_centre_index =
                    (bot.current_centre_index + 1) % Len(preferences.center)
             /\ pc' = "s_change"]_vars
    /\ [][pc # "s_start" \/ ~bot.active \/ preferences.center = <<>> =>
             bot'.current_centre_index = bot.current_centre_index]_vars

\* the third call on a session with two centres searches the first again
C27_Witness ==
    /\ pc = "s_change" /\ run.started = 3
    /\ preferences.center = <<"A", "B">>
    /\ obs.centre = "A" /\ bot.current_centre_index = 1 /\ bot.active

-----------------------------------------------------------------------------
(* Properties of the two top-level flows *)

\* C2: in the reschedule flow, from the moment a classification returns a
\* terminal failure state (error, a firewall the captcha handler did not
\* resolve, login_required after the credentials were entered) the active
\* flag of the session is false and the page is not interacted with again.
C2_TerminalStopsSession ==
    mode = "reschedule" /\ obs.terminal => ~bot.active /\ ~obs.late

\* C3: a browser created by an attempt is closed when that attempt ends, so
\* none is open when the next attempt starts or when the run returns.
C3_SessionsClosed ==
    pc \in {"r_next", "r_loop", "i_next", "i_loop", "returned"} => browsers = {}

\* C8: a run never starts more than MAX_ATTEMPTS attempts, and when the last
\* attempt has ended the only step left to the loop is to return.
C8_AttemptCeiling ==
    /\ [](run.started <= MAX_ATTEMPTS /\ run.attempt <= MAX_ATTEMPTS)
    /\ [][(pc \in {"r_loop", "i_loop"} /\ run.attempt >= MAX_ATTEMPTS)
            => (pc' = "returned")]_vars

\* a run returned after four attempts, the last one through the handler
C8_Witness ==
    /\ pc = "returned"
    /\ run.started = MAX_ATTEMPTS /\ run.attempt = MAX_ATTEMPTS
    /\ obs.caught /\ obs.backoff > 0

\* C9: an exception raised inside a reschedule attempt is caught by the
\* handler of run_reschedule_flow: the screenshot is attempted on the
\* session's browser, the browser is closed and the back-off sleep is taken
\* before the next attempt; the exception never leaves run_reschedule_flow.
C9_TopLevelBoundary ==
    mode = "reschedule" =>
        /\ pc # "raised"
        /\ pc = "r_next" /\ obs.caught =>
              /\ bot.driver # 0 => obs.shot
              /\ bot.driver \notin browsers
              /\ obs.backoff = 30


\* C19: an exception of the messaging provider in send_text_available or
\* send_text_test_found is swallowed: whatever the two dispatches do, the
\* notification step goes on to select the slot, changes nothing of the
\* session, the page or the booking state, and never enters an exception
\* handler; the steps after it do not read the dispatch results.
C19_SmsFailureSwallowed ==
    /\ [](pc = "s_submit" => obs.smsAvail \in SmsOutcomes /\ obs.smsFound \in SmsOutcomes)
    /\ [][pc = "s_notify" =>
            /\ pc' = "s_submit"
            /\ obs'.caught = obs.caught /\ obs'.shot = obs.shot
            /\ UNCHANGED <<page, status, solved, loop_count, runVars, bookVars, scanVars>>]_vars
    /\ [][pc = "s_submit" /\ pc' = "b_loop" =>
            /\ bk' = [Bk0 EXCEPT !.auto_book_test = AUTO_BOOK_TEST, !.skip = SOLVE_MANUALLY]
            /\ obs' = [NewCall(Touch(obs)) EXCEPT !.centre = obs.centre,
                                                  !.smsLost = obs.smsLost]]_vars

\* both dispatches failed and the finalizer went on to book the slot
C19_Witness ==
    /\ mode = "reschedule" /\ pc = "s_booked"
    /\ obs.smsLost /\ obs.outcome = "booked" /\ bk.ret = TRUE /\ ~obs.caught

\* C20 as stated: whenever the scanner reported a qualifying slot, the
\* availability SMS is attempted before search_and_book ends; whenever a slot
\* is selected for booking, the test-found SMS with the short-notice flag has
\* been attempted.
C20_NotifyOnSlot ==
    /\ mode = "reschedule" /\ pc = "s_failed" /\ scanOut.found =>
          obs.smsAvail \in SmsOutcomes
    /\ pc = "s_submit" =>
          /\ obs.smsFound \in SmsOutcomes
          /\ obs.smsFlag = IF bk.short_notice THEN "Short Notice" ELSE "Standard"

\* C28: the active flag of a session is true only if the login on it ended
\* with the final classification ok: a new session starts inactive, the flag
\* becomes true only in the last step of login and only on ok, and every
\* other assignment, in login or in search_and_book, leaves it false or
\* makes it false.
C28_ActiveOnlyAfterOkLogin ==
    /\ [](mode = "reschedule" /\ bot.active => obs.loginFinal = "ok")
    /\ [][pc = "r_bot" => ~bot'.active]_vars
    /\ [][~bot.active /\ bot'.active => pc = "l_final" /\ status' = "ok"]_vars

\* the session was active after login and search_and_book made it inactive
C28_Witness ==
    /\ mode = "reschedule" /\ pc = "r_sleep"
    /\ obs.loginFinal = "ok" /\ ~bot.active /\ status \in {"firewall", "error"}

\* C29: in the reschedule flow every attempt searches the first centre of
\* the centre list: search_and_book is entered only from the one call of the
\* attempt, on a session whose index is 0, so the centre searched is the
\* head of the list and no later centre is ever searched.
C29_OnlyFirstCentre ==
    /\ [](mode = "reschedule" /\ pc = "s_start" => bot.current_centre_index = 0)
    /\ [](mode = "reschedule" /\ obs.centre # "" =>
             /\ preferences.center # <<>>
             /\ obs.centre = Head(preferences.center)
             /\ bot.current_centre_index = 1 % Len(preferences.center))
    /\ [][mode = "reschedule" /\ pc' = "s_start" /\ pc # "s_start" =>
             pc = "r_logged"]_vars
    /\ [][mode = "reschedule" /\ pc = "r_logged" => pc' \in {"s_start", "r_sleep"}]_vars

\* the second attempt, with two centres configured, searches the first again
C29_Witness ==
    /\ mode = "reschedule" /\ pc = "s_change" /\ run.started = 2
    /\ preferences.center = <<"A", "B">>
    /\ obs.centre = "A"

\* C30 as stated: run_reschedule_flow has no early exit: whenever it has
\* ended, all 4 iterations of its loop have been performed, whatever the
\* finalizer reported in an earlier attempt.
C30_NoEarlyExit ==
    mode = "reschedule" /\ pc \in {"returned", "raised"} =>
        run.started = MAX_ATTEMPTS /\ run.attempt = MAX_ATTEMPTS

\* C15: after a call of solve_captcha that returned True the caller classifies
\* the page again before it interacts with the page or reports success.
C15_RecheckAfterCaptcha ==
    ~obs.unverified


\* C16: the preferences loaded at startup are not changed by any operation:
\* every attempt sees the centre list, date bounds, exclusion list and
\* current-test data that were loaded.
C16_PreferencesImmutable ==
    mode \in {"reschedule", "booking"} => preferences = run.loaded


\* C17: bad credentials (loginError in the URL) or a cancelled booking found
\* by login leave the session inactive and end this attempt only: the attempt
\* goes straight to its closing sleep, search_and_book is not entered, and the
\* loop goes on to the next attempt as long as the ceiling is not reached.
C17_LoginFailureEndsAttemptOnly ==
    /\ [](mode = "reschedule" /\ obs.loginFail # "none" =>
             /\ ~bot.active
             /\ ~obs.caught
             /\ pc \in {"r_logged", "r_sleep", "r_next", "r_loop", "returned"}
             /\ pc = "returned" => run.attempt = MAX_ATTEMPTS)
    /\ [][(mode = "reschedule" /\ obs.loginFail # "none" /\ pc = "r_next") =>
             (pc' = "r_loop" /\ run'.attempt = run.attempt + 1)]_vars
    /\ [][(pc = "r_loop" /\ run.attempt < MAX_ATTEMPTS) =>
             (pc' \in {"r_bot", "r_closed"} /\ run'.started = run.started + 1)]_vars

\* the second attempt ended on a cancelled booking and the third is about to start
C17_Witness ==
    /\ mode = "reschedule" /\ pc = "r_next"
    /\ obs.loginFail = "cancelled"
    /\ ~bot.active
    /\ run.attempt = 1


\* C31: an attempt whose clock reading lies outside 06:05..23:35 (an attempt
\* is within hours exactly when 06:05 <= reading <= 23:35) is counted like any
\* other attempt, and until the next attempt begins it creates no browser,
\* leaves the session object, the page and every record of page work
\* untouched and only moves on to the next attempt; as long as no attempt of
\* the run started within hours nothing has been opened or visited, and such
\* a run returns after exactly MAX_ATTEMPTS attempts.
C31_ClosedAttempt ==
    /\ [](pc \in {"r_closed", "i_closed"} =>
             (run.now < DVSA_OPEN_TIME \/ run.now > DVSA_CLOSE_TIME))
    /\ [](pc \in {"r_bot", "i_setup"} =>
             (DVSA_OPEN_TIME <= run.now /\ run.now <= DVSA_CLOSE_TIME))
    /\ [](~run.inHours =>
             /\ browsers = {} /\ bot = Bot0 /\ page = BlankPage
             /\ status = "none" /\ obs = Obs0 /\ bk = Bk0
             /\ pc \in {"r_loop", "r_closed", "r_next", "i_loop", "i_closed",
                         "i_next", "returned"}
             /\ (pc = "returned" =>
                   (run.started = MAX_ATTEMPTS /\ run.attempt = MAX_ATTEMPTS)))
    /\ [][(pc \in {"r_loop", "i_loop"} /\ pc' \in {"r_closed", "i_closed"}) =>
             /\ run'.started = run.started + 1
             /\ UNCHANGED <<page, queueVars, browsers, bookVars, scanVars>>]_vars
    /\ [][(pc \in {"r_closed", "i_closed"}) =>
             /\ pc' \in {"r_next", "i_next"}
             /\ run'.started = run.started /\ run'.attempt = run.attempt
             /\ UNCHANGED <<page, queueVars, obs, bot, browsers, bookVars, scanVars>>]_vars
    /\ [][(pc \in {"r_next", "i_next"} /\ ~run.inHours) =>
             (run'.attempt = run.attempt + 1 /\ UNCHANGED <<page, browsers>>)]_vars

\* a run whose four attempts all started outside operating hours has returned
C31_Witness ==
    /\ pc = "returned" /\ ~run.inHours
    /\ run.started = MAX_ATTEMPTS /\ run.attempt = MAX_ATTEMPTS
    /\ browsers = {} /\ page = BlankPage


\* C32: within one execution of book_test_flow the "i-am-candidate" control
\* is clicked successfully at most once: the flag is set exactly by the one
\* successful click and stays set, and an attempt that begins after that
\* click passes the candidate step without a click, without an exception
\* path and without touching the flag or the click record.
C32_CandidateClickedOnce ==
    /\ [](mode \in {"book", "reschedule"} =>
            /\ obs.nCandidate <= 1
            /\ pc \in {"b_loop", "b_candidate", "b_frame", "b_captcha", "b_tail",
                        "b_finish", "b_confirm", "b_confirmed"} =>
                  /\ bk.i_am_candidate_clicked <=> obs.nCandidate = 1
                  /\ bk.i_am_candidate_clicked <=> obs.candidateAt > 0
                  /\ obs.candidateAt <= bk.attempt)
    /\ [][(pc = "b_candidate" /\ bk.i_am_candidate_clicked) =>
             (pc' = "b_frame" /\ bk' = bk /\ obs' = obs)]_vars
    /\ [][(pc \in {"b_loop", "b_candidate", "b_frame", "b_captcha", "b_tail"}
              /\ bk.i_am_candidate_clicked) =>
             /\ bk'.i_am_candidate_clicked
             /\ obs'.nCandidate = obs.nCandidate
             /\ obs'.candidateAt = obs.candidateAt]_vars

\* the click succeeded in the first attempt, that attempt failed later, and
\* the last attempt has passed the candidate step without a second click
C32_Witness ==
    /\ pc = "b_frame" /\ bk.attempt = booking_attempts
    /\ obs.candidateAt = 1 /\ obs.nCandidate = 1 /\ bk.i_am_candidate_clicked


\* the calendar day (ordinal) of a datetime
C33_Day(v) == v \div MinutesPerDay

\* C33: when the current test date parses in the long format, a date the
\* scanner returns lies on a calendar day strictly before the day of the
\* current test, whatever the before-date, the after-date and the exclusion
\* list are.
C33_BeforeCurrentTest ==
    (/\ mode = "scan" /\ pc = "done"
     /\ strptime(scanIn.current_test_date, "long").ok
     /\ scanOut.found) =>
        /\ DateOf(scanOut.date).ok
        /\ C33_Day(DateOf(scanOut.date).v)
              < C33_Day(strptime(scanIn.current_test_date, "long").v)

\* the current test is on Tuesday 11 March in the afternoon: the cell of the
\* 17th, first in the grid, is passed over and the 10th, the day before the
\* test, is returned
C33_Witness ==
    /\ mode = "scan" /\ pc = "done"
    /\ scanIn.current_test_date = Long(2025, 3, 11, 883)
    /\ Len(scanIn.days) = 2
    /\ scanIn.days[1] = Cell(FALSE, TRUE, Ymd(2025, 3, 17))
    /\ scanIn.days[2] = Cell(FALSE, TRUE, Ymd(2025, 3, 10))
    /\ scanOut.found /\ scanOut.date = Ymd(2025, 3, 10) /\ scanOut.el = 2

====
